---- MODULE Spec2Model ----
(***************************************************************************)
(* FraudGuard-AI: the Suspicion Gate, the Risk Assessor and the            *)
(* submit / verify request pipeline of backend/app, and the parallel       *)
(* orchestrator of backend/orchestrator.py with its LLM risk assessor.     *)
(*                                                                         *)
(* Units.  A fraud probability p in [0.0, 1.0] is carried in permille      *)
(* (0..1000), so that `p > 0.60` is `p > 600` and `int(p * 100)` is        *)
(* `p \div 10`.  A face match score is carried in percent (0.80 -> 80).    *)
(* Amounts are whole currency units.                                       *)
(*                                                                         *)
(* External collaborators (the classifier, the SageMaker biometric         *)
(* endpoint, the profile / history store, the wall clock, the random       *)
(* number generator) are inputs drawn from small sets.                     *)
(***************************************************************************)
EXTENDS Integers, Sequences, FiniteSets, TLC

VARIABLES
    gate,                \* Suspicion Gate harness: inputs, clock, evaluations
    risk,                \* Risk Assessor harness: inputs and the assessment
    MOCK_TRANSACTIONS,   \* aws_services.MOCK_TRANSACTIONS (dict by transaction id)
    MOCK_FRAUD_CASES,    \* aws_services.MOCK_FRAUD_CASES (dict by case id)
    uploaded_photos,     \* S3 paths handed out by save_uploaded_photo
    last,                \* the request handled last and what it did
    requests,            \* number of requests handled so far
    processed,           \* ids whose current pending record has been verified
    fd,                  \* one run of backend/orchestrator.orchestrate_fraud_detection
    runs,                \* two runs of orchestrate_transaction on the same inputs
    parse,               \* one call of tools/deepfake_tools.parse_deepfake_result
    ev                   \* one call of the pattern and timeline functions of
                         \* backend/agents/evidence_collector.py

vars == <<gate, risk, MOCK_TRANSACTIONS, MOCK_FRAUD_CASES, uploaded_photos,
          last, requests, processed, fd, runs, parse, ev>>

pipelineVars == <<MOCK_TRANSACTIONS, MOCK_FRAUD_CASES, uploaded_photos,
                  last, requests, processed>>

(***************************************************************************)
(* Python values                                                           *)
(***************************************************************************)
\* Python's None.
None == [none |-> TRUE]

\* dict.get(k, default)
Get(d, k, default) == IF k \in DOMAIN d THEN d[k] ELSE default

\* The empty dict.
EmptyDict == [k \in {} |-> TRUE]

\* d[k] = v on a dict.
DictPut(d, k, v) == [x \in DOMAIN d \cup {k} |-> IF x = k THEN v ELSE d[x]]

RECURSIVE SumDeltas(_)
\* sum(adj[1] for adj in risk_adjustments)
SumDeltas(adjs) ==
    IF adjs = <<>> THEN 0 ELSE adjs[1][2] + SumDeltas(Tail(adjs))

Min(a, b) == IF a <= b THEN a ELSE b

(***************************************************************************)
(* Policy constants of the source                                          *)
(***************************************************************************)
HighValueFloor == 5000
DeviceAmountFloor == 3000
HourAmountFloor == 2000
GeoAmountFloor == 3000
DistanceFloor == 500
MlGateThreshold == 600
DeviationFactor == 5
UnusualHourFrom == 2
UnusualHourTo == 6
FaceMatchThreshold == 80
ScoreCap == 100
BlockThreshold == 85
ReviewHighThreshold == 70
ReviewMediumThreshold == 50
EscalationThreshold == 70
FallbackProbability == 500
MaxAmount == 1000000

(***************************************************************************)
(* utils.calculate_suspicious_flag                                         *)
(* user_baseline is what get_user_baseline(user_id) returns and hour is    *)
(* what datetime.now().hour returns inside the call.                       *)
(***************************************************************************)
Gate_ml_inclusive(transaction_data, fraud_probability, user_baseline, hour) ==
    LET amount == Get(transaction_data, "transaction_amount", 0)
        avg_amount == Get(user_baseline, "avg_transaction_amount", 1000)
        device == Get(transaction_data, "device_type", "Desktop")
        known_devices == Get(user_baseline, "known_devices", {})
        distance == Get(transaction_data, "transaction_distance", 0)
        r0 == <<>>
        r1 == IF amount > avg_amount * DeviationFactor /\ amount > HighValueFloor
              THEN Append(r0, "high_value_deviation") ELSE r0
        r2 == IF fraud_probability >= MlGateThreshold
              THEN Append(r1, "ml_high_risk") ELSE r1
        r3 == IF device \notin known_devices /\ amount > DeviceAmountFloor
              THEN Append(r2, "new_device_high_amount") ELSE r2
        r4 == IF (UnusualHourFrom <= hour /\ hour <= UnusualHourTo)
                 /\ amount > HourAmountFloor
              THEN Append(r3, "unusual_hour") ELSE r3
        r5 == IF distance > DistanceFloor /\ amount > GeoAmountFloor
              THEN Append(r4, "geographic_anomaly") ELSE r4
    IN  [is_suspicious |-> Len(r5) > 0, reasons |-> r5]

calculate_suspicious_flag(transaction_data, fraud_probability, user_baseline, hour) ==
    LET amount == Get(transaction_data, "transaction_amount", 0)
        avg_amount == Get(user_baseline, "avg_transaction_amount", 1000)
        device == Get(transaction_data, "device_type", "Desktop")
        known_devices == Get(user_baseline, "known_devices", {})
        distance == Get(transaction_data, "transaction_distance", 0)
        r0 == <<>>
        r1 == IF amount > avg_amount * DeviationFactor /\ amount > HighValueFloor
              THEN Append(r0, "high_value_deviation") ELSE r0
        r2 == IF fraud_probability > MlGateThreshold
              THEN Append(r1, "ml_high_risk") ELSE r1
        r3 == IF device \notin known_devices /\ amount > DeviceAmountFloor
              THEN Append(r2, "new_device_high_amount") ELSE r2
        r4 == IF (UnusualHourFrom <= hour /\ hour <= UnusualHourTo)
                 /\ amount > HourAmountFloor
              THEN Append(r3, "unusual_hour") ELSE r3
        r5 == IF distance > DistanceFloor /\ amount > GeoAmountFloor
              THEN Append(r4, "geographic_anomaly") ELSE r4
    IN  [is_suspicious |-> Len(r5) > 0, reasons |-> r5]

(***************************************************************************)
(* The text-generation service.  A reply is the text it generated, or the  *)
(* failure of the call.                                                    *)
(***************************************************************************)
QuietReply == [raised |-> FALSE, text |-> "Routine purchase, no risk indicators."]

BedrockReplies ==
    {QuietReply,
     [raised |-> FALSE, text |-> "BLOCKED. Risk Score: 100/100. Deepfake detected, escalate."],
     [raised |-> FALSE, text |-> ""],
     [raised |-> TRUE, error |-> "read timeout"]}

\* aws_services.call_bedrock_claude: always a text, the failure of the call
\* being turned into one.
call_bedrock_claude(reply) ==
    IF reply.raised
    THEN "Error generating explanation: " \o reply.error
    ELSE reply.text

(***************************************************************************)
(* agents.transaction_monitor.analyze_transaction                          *)
(* llm is the reply of the text-generation service to the agent's prompt.  *)
(***************************************************************************)
analyze_transaction(fraud_probability, llm) ==
    LET risk_score == fraud_probability \div 10
    IN  [fraud_probability |-> fraud_probability,
         risk_score |-> risk_score,
         llm_explanation |-> call_bedrock_claude(llm),
         recommendation |-> IF risk_score >= 85 THEN "BLOCK"
                            ELSE IF risk_score >= 60 THEN "REVIEW"
                            ELSE "APPROVE",
         agent |-> "transaction_monitor"]

(***************************************************************************)
(* agents.deepfake_detector.analyze_deepfake                               *)
(* detection_result is the reply of invoke_sagemaker_endpoint.             *)
(***************************************************************************)
\* analyze_deepfake whose verification_passed leaves the code out.
analyze_deepfake_without_code(detection_result, llm) ==
    LET is_deepfake == Get(detection_result, "is_deepfake", FALSE)
        face_match_score == Get(detection_result, "face_match_score", 0)
        code_validated == Get(detection_result, "code_validated", FALSE)
    IN  [is_deepfake |-> is_deepfake,
         face_match_score |-> face_match_score,
         code_validated |-> code_validated,
         verification_passed |-> (~is_deepfake
                                  /\ face_match_score >= FaceMatchThreshold),
         llm_explanation |-> call_bedrock_claude(llm),
         agent |-> "deepfake_detector"]

analyze_deepfake(detection_result, llm) ==
    LET is_deepfake == Get(detection_result, "is_deepfake", FALSE)
        face_match_score == Get(detection_result, "face_match_score", 0)
        code_validated == Get(detection_result, "code_validated", FALSE)
    IN  [is_deepfake |-> is_deepfake,
         face_match_score |-> face_match_score,
         code_validated |-> code_validated,
         verification_passed |-> (~is_deepfake
                                  /\ face_match_score >= FaceMatchThreshold
                                  /\ code_validated),
         llm_explanation |-> call_bedrock_claude(llm),
         agent |-> "deepfake_detector"]

(***************************************************************************)
(* Evidence patterns.  A pattern string is kept by its fixed text, the     *)
(* interpolated number replaced by N; PatternContains is Python's          *)
(* `needle in p` on those texts.                                           *)
(***************************************************************************)
AmountPattern == "Amount Nx higher than normal"
VelocityPattern == "High velocity: N transactions in 24h"
DevicePattern == "New device detected"

PatternContains(needle, p) ==
    \/ needle = "higher than normal" /\ p = AmountPattern
    \/ needle = "High velocity" /\ p = VelocityPattern
    \/ needle = "New device" /\ p = DevicePattern

\* any(needle in p for p in patterns)
AnyContains(needle, patterns) ==
    \E i \in 1..Len(patterns) : PatternContains(needle, patterns[i])

(***************************************************************************)
(* agents.evidence_collector.collect_evidence                              *)
(* user_profile is the reply of get_user_profile, recent_24h_count is      *)
(* len(recent_24h) over the reply of get_user_transaction_history.         *)
(***************************************************************************)
collect_evidence(transaction_data, user_profile, recent_24h_count, llm) ==
    LET current_amount == Get(transaction_data, "transaction_amount", 0)
        avg_amount == Get(user_profile, "avg_transaction_amount", 0)
        p0 == <<>>
        p1 == IF avg_amount > 0 /\ current_amount > avg_amount * 5
              THEN Append(p0, AmountPattern) ELSE p0
        p2 == IF recent_24h_count > 10
              THEN Append(p1, VelocityPattern) ELSE p1
        p3 == IF Get(transaction_data, "device_type", "None")
                    \notin Get(user_profile, "known_devices", {})
              THEN Append(p2, DevicePattern) ELSE p2
    IN  [recent_24h_count |-> recent_24h_count,
         detected_patterns |-> p3,
         llm_summary |-> call_bedrock_claude(llm),
         agent |-> "evidence_collector"]

(***************************************************************************)
(* agents.risk_assessor.assess_risk                                        *)
(***************************************************************************)
\* The adjustment list with the three biometric tests made independent.
risk_adjustments_independent(deepfake_result, evidence) ==
    LET patterns == Get(evidence, "detected_patterns", <<>>)
        a0 == <<>>
        b1 == IF deepfake_result # None /\ deepfake_result.is_deepfake
              THEN Append(a0, <<"Deepfake detected", 40>>) ELSE a0
        b2 == IF deepfake_result # None
                 /\ deepfake_result.face_match_score < FaceMatchThreshold
              THEN Append(b1, <<"Low face match", 20>>) ELSE b1
        b3 == IF deepfake_result # None /\ ~deepfake_result.code_validated
              THEN Append(b2, <<"Code validation failed", 15>>) ELSE b2
        a2 == IF AnyContains("higher than normal", patterns)
              THEN Append(b3, <<"Amount anomaly", 15>>) ELSE b3
        a3 == IF AnyContains("High velocity", patterns)
              THEN Append(a2, <<"Velocity spike", 10>>) ELSE a2
        a4 == IF AnyContains("New device", patterns)
              THEN Append(a3, <<"New device", 10>>) ELSE a3
    IN  a4

\* The adjustment list built at risk_assessor.py lines 37-55.
risk_adjustments_of(deepfake_result, evidence) ==
    LET patterns == Get(evidence, "detected_patterns", <<>>)
        a0 == <<>>
        a1 == IF deepfake_result # None
              THEN IF deepfake_result.is_deepfake
                   THEN Append(a0, <<"Deepfake detected", 40>>)
                   ELSE IF deepfake_result.face_match_score < FaceMatchThreshold
                   THEN Append(a0, <<"Low face match", 20>>)
                   ELSE IF ~deepfake_result.code_validated
                   THEN Append(a0, <<"Code validation failed", 15>>)
                   ELSE a0
              ELSE a0
        a2 == IF AnyContains("higher than normal", patterns)
              THEN Append(a1, <<"Amount anomaly", 15>>) ELSE a1
        a3 == IF AnyContains("High velocity", patterns)
              THEN Append(a2, <<"Velocity spike", 10>>) ELSE a2
        a4 == IF AnyContains("New device", patterns)
              THEN Append(a3, <<"New device", 10>>) ELSE a3
    IN  a4

composite_uncapped(base_risk, adjustment_total) ==
    base_risk + adjustment_total

\* min(base_risk + adjustment_total, 100)
composite_of(base_risk, adjustment_total) ==
    Min(base_risk + adjustment_total, ScoreCap)

status_of_strict(composite_risk_score) ==
    IF composite_risk_score > BlockThreshold
    THEN [status |-> "BLOCKED", confidence |-> "very_high"]
    ELSE IF composite_risk_score > ReviewHighThreshold
    THEN [status |-> "REVIEW", confidence |-> "high"]
    ELSE IF composite_risk_score > ReviewMediumThreshold
    THEN [status |-> "REVIEW", confidence |-> "medium"]
    ELSE [status |-> "APPROVED", confidence |-> "low_risk"]

\* The status / confidence ladder at risk_assessor.py lines 68-79.
status_of(composite_risk_score) ==
    IF composite_risk_score >= BlockThreshold
    THEN [status |-> "BLOCKED", confidence |-> "very_high"]
    ELSE IF composite_risk_score >= ReviewHighThreshold
    THEN [status |-> "REVIEW", confidence |-> "high"]
    ELSE IF composite_risk_score >= ReviewMediumThreshold
    THEN [status |-> "REVIEW", confidence |-> "medium"]
    ELSE [status |-> "APPROVED", confidence |-> "low_risk"]

\* assess_risk taking the status from the generated text when the text
\* names one.
assess_risk_follows_text(monitor_result, deepfake_result, evidence, llm) ==
    LET base_risk == monitor_result.risk_score
        risk_adjustments == risk_adjustments_of(deepfake_result, evidence)
        adjustment_total == SumDeltas(risk_adjustments)
        composite_risk_score == composite_of(base_risk, adjustment_total)
        st == status_of(composite_risk_score)
        llm_reasoning == call_bedrock_claude(llm)
    IN  [risk_score |-> composite_risk_score,
         base_risk |-> base_risk,
         adjustments |-> risk_adjustments,
         status |-> IF llm_reasoning = "BLOCKED. Risk Score: 100/100. Deepfake detected, escalate."
                    THEN "BLOCKED" ELSE st.status,
         confidence |-> st.confidence,
         llm_reasoning |-> llm_reasoning,
         agent |-> "risk_assessor"]

\* llm is the reply of the text-generation service to the prompt of step 3.
assess_risk(monitor_result, deepfake_result, evidence, llm) ==
    LET base_risk == monitor_result.risk_score
        risk_adjustments == risk_adjustments_of(deepfake_result, evidence)
        adjustment_total == SumDeltas(risk_adjustments)
        composite_risk_score == composite_of(base_risk, adjustment_total)
        st == status_of(composite_risk_score)
    IN  [risk_score |-> composite_risk_score,
         base_risk |-> base_risk,
         adjustments |-> risk_adjustments,
         status |-> st.status,
         confidence |-> st.confidence,
         llm_reasoning |-> call_bedrock_claude(llm),
         agent |-> "risk_assessor"]

(***************************************************************************)
(* Inputs of the harnesses                                                 *)
(***************************************************************************)
MaxEvals == 2

\* get_user_profile: the default profile of aws_services.py lines 73-79 and
\* the other replies a profile store can give (keys may be absent).
DefaultProfile ==
    [user_id |-> "U1", avg_transaction_amount |-> 1000,
     known_devices |-> {"Desktop", "Mobile"}]

Profiles ==
    {DefaultProfile,
     [user_id |-> "U1", avg_transaction_amount |-> 2000,
      known_devices |-> {"Desktop"}],
     [user_id |-> "U1"]}

GateAmounts == {1500, 2000, 2001, 3000, 3001, 5000, 5001, 9000}

GateTxns ==
    {[user_id |-> "U1", transaction_amount |-> a, device_type |-> d] :
        a \in GateAmounts, d \in {"Desktop", "Tablet"}}
    \cup
    {[user_id |-> "U1", transaction_amount |-> a, device_type |-> d,
      transaction_distance |-> k] :
        a \in GateAmounts, d \in {"Desktop", "Tablet"}, k \in {500, 501}}

GateProbs == {100, 600, 601}

Hours == {1, 2, 6, 7}

GateIdle == [phase |-> "idle"]

FdIdle == [phase |-> "idle"]

RunsIdle == [phase |-> "idle"]

ParseIdle == [phase |-> "idle"]

EvIdle == [phase |-> "idle"]

RiskIdle == [phase |-> "idle"]

\* The mock stores as the module leaves them at import.
PipelineIdle ==
    /\ MOCK_TRANSACTIONS = EmptyDict
    /\ MOCK_FRAUD_CASES = EmptyDict
    /\ uploaded_photos = {}
    /\ last = [op |-> "none"]
    /\ requests = 0
    /\ processed = {}

GateInit ==
    /\ gate \in [phase : {"gate"}, txn : GateTxns, prob : GateProbs,
                 baseline : Profiles, hour : Hours, evals : {<<>>}]
    /\ risk = RiskIdle
    /\ fd = FdIdle
    /\ runs = RunsIdle
    /\ parse = ParseIdle
    /\ ev = EvIdle
    /\ PipelineIdle

\* One call of calculate_suspicious_flag at the present hour.
GateEvaluate ==
    /\ gate.phase = "gate"
    /\ Len(gate.evals) < MaxEvals
    /\ gate' = [gate EXCEPT !.evals =
                  Append(@, [hour |-> gate.hour,
                             out |-> calculate_suspicious_flag(
                                        gate.txn, gate.prob, gate.baseline,
                                        gate.hour)])]
    /\ UNCHANGED <<parse, ev, risk, fd, runs, pipelineVars>>

\* The wall clock read by datetime.now() moves between calls.
GateClock ==
    /\ gate.phase = "gate"
    /\ \E h \in Hours \ {gate.hour} : gate' = [gate EXCEPT !.hour = h]
    /\ UNCHANGED <<parse, ev, risk, fd, runs, pipelineVars>>

\* invoke_sagemaker_endpoint replies (any field may be absent).
DetectionResults ==
    [is_deepfake : BOOLEAN, face_match_score : {50, 79, 80, 95},
     code_validated : BOOLEAN]
    \cup {EmptyDict}

RiskTxns ==
    {[user_id |-> "U1", transaction_amount |-> a, device_type |-> d] :
        a \in {200, 9000}, d \in {"Desktop", "Tablet"}}

RecentCounts == {2, 11}

RiskProbs == {p \in 0..1000 : p % 5 = 0}

RiskInit ==
    /\ risk \in [phase : {"risk"},
                 monitor : {analyze_transaction(p, QuietReply) :
                               p \in RiskProbs},
                 deepfake : {None} \cup
                            {analyze_deepfake(d, QuietReply) :
                                d \in DetectionResults},
                 evidence : {collect_evidence(t, b, n, QuietReply) :
                                t \in RiskTxns, b \in Profiles,
                                n \in RecentCounts},
                 assessment : {None}]
    /\ gate = GateIdle
    /\ fd = FdIdle
    /\ runs = RunsIdle
    /\ parse = ParseIdle
    /\ ev = EvIdle
    /\ PipelineIdle

\* One call of assess_risk.
RiskAssess ==
    /\ risk.phase = "risk"
    /\ risk.assessment = None
    /\ risk' = [risk EXCEPT !.assessment =
                  assess_risk(risk.monitor, risk.deepfake, risk.evidence,
                              QuietReply)]
    /\ UNCHANGED <<parse, ev, gate, fd, runs, pipelineVars>>

GateNext == GateEvaluate \/ GateClock

SpecGate == GateInit /\ [][GateNext]_vars

RiskNext == RiskAssess

SpecRisk == RiskInit /\ [][RiskNext]_vars

(***************************************************************************)
(* The request pipeline of backend/app                                     *)
(***************************************************************************)
MaxRequests == 3

\* A str-or-None argument carries Python's None as this reserved text.
NoCode == "None"

\* bool(verification_code) for a str-or-None value.
TruthyStr(sv) == sv # NoCode /\ sv # ""

\* f"TXN_{random.randint(10000, 99999)}": two of the 90000 identifiers.
TxnIds == {"TXN_" \o ToString(10000 + i) : i \in 0..1}

\* f"{random.randint(100000, 999999)}": two of the codes.
Codes == {ToString(100000 + i) : i \in 0..1}

\* f"FA-{date}-{random.randint(1000, 9999)}": two case ids of one day.
CaseIds == {"FA-20250101-" \o ToString(1000 + i) : i \in 0..1}

\* Outcomes of MODEL.predict_proba: a probability, or InferenceError when
\* the call raises.
InferenceError == -1
ProbOutcomes == {100, 600, 900, InferenceError}

\* predict_fraud_probability answering 0.0 when the inference fails.
predict_fraud_probability_zero(outcome) ==
    IF outcome = InferenceError THEN 0 ELSE outcome

\* services.fraud_model.predict_fraud_probability (model loaded).
predict_fraud_probability(outcome) ==
    IF outcome = InferenceError THEN FallbackProbability ELSE outcome

\* validate_transaction_data without its user_id test (lines 87-90).
validate_transaction_data_any_user(transaction_data) ==
    IF \E f \in {"user_id", "transaction_amount", "transaction_type",
                 "merchant_category"} : f \notin DOMAIN transaction_data
    THEN [is_valid |-> FALSE, error_msg |-> "Missing required field"]
    ELSE IF transaction_data.transaction_amount <= 0
    THEN [is_valid |-> FALSE, error_msg |-> "Invalid transaction amount"]
    ELSE IF transaction_data.transaction_amount > MaxAmount
    THEN [is_valid |-> FALSE,
          error_msg |-> "Transaction amount exceeds maximum limit"]
    ELSE [is_valid |-> TRUE, error_msg |-> "None"]

\* utils.validate_transaction_data -> (is_valid, error_msg)
validate_transaction_data(transaction_data) ==
    IF \E f \in {"user_id", "transaction_amount", "transaction_type",
                 "merchant_category"} : f \notin DOMAIN transaction_data
    THEN [is_valid |-> FALSE, error_msg |-> "Missing required field"]
    ELSE IF transaction_data.transaction_amount <= 0
    THEN [is_valid |-> FALSE, error_msg |-> "Invalid transaction amount"]
    ELSE IF transaction_data.transaction_amount > MaxAmount
    THEN [is_valid |-> FALSE,
          error_msg |-> "Transaction amount exceeds maximum limit"]
    ELSE IF transaction_data.user_id = ""
    THEN [is_valid |-> FALSE, error_msg |-> "Invalid user_id"]
    ELSE [is_valid |-> TRUE, error_msg |-> "None"]

\* aws_services.save_pending_transaction: the store after the call.
save_pending_transaction(store, transaction_id, transaction_data, verification_code, flag_reasons) ==
    DictPut(store, transaction_id,
            DictPut(DictPut(DictPut(transaction_data, "status", "PENDING"),
                            "verification_code", verification_code),
                    "flag_reasons", flag_reasons))

\* aws_services.get_pending_transaction
get_pending_transaction(store, transaction_id) ==
    Get(store, transaction_id, None)

\* aws_services.save_uploaded_photo: the path it returns.
save_uploaded_photo(transaction_id, filename) ==
    "s3://mock-bucket/uploads/" \o transaction_id \o "_" \o filename

\* aws_services.create_fraud_case: the case store after the call.
create_fraud_case(cases, fraud_case) ==
    DictPut(cases, fraud_case.case_id, fraud_case)

\* aws_services.send_sns_alert: the reply, or the failure of the alert
\* channel (alert_ok is FALSE when the call raises).
send_sns_alert(alert_ok) ==
    IF alert_ok
    THEN [raised |-> FALSE, value |-> [MessageId |-> "mock-message-id"]]
    ELSE [raised |-> TRUE]

\* handle_escalation with the case record removed again when the alert
\* fails.
handle_escalation_rollback(transaction_data, risk_assessment, evidence, case_id, cases, alert_ok, llm) ==
    IF send_sns_alert(alert_ok).raised
    THEN [raised |-> TRUE, fraud_cases |-> cases]
    ELSE [raised |-> FALSE,
          result |-> [case_id |-> case_id,
                      fraud_report |-> call_bedrock_claude(llm),
                      alerts_sent |-> <<"mock-message-id">>,
                      agent |-> "escalation_handler"],
          fraud_cases |->
              DictPut(cases, case_id,
                      [case_id |-> case_id,
                       transaction_id |->
                           Get(transaction_data, "transaction_id", "None"),
                       user_id |-> Get(transaction_data, "user_id", "None"),
                       risk_score |-> risk_assessment.risk_score,
                       status |-> risk_assessment.status,
                       amount |->
                           Get(transaction_data, "transaction_amount", 0),
                       fraud_report |-> call_bedrock_claude(llm)])]

\* agents.escalation_handler.handle_escalation: what it returns (or that
\* it raised) and the case store it leaves.  case_id is the identifier
\* drawn at line 42; the alert is sent after the case record is stored.
handle_escalation(transaction_data, risk_assessment, evidence, case_id, cases, alert_ok, llm) ==
    LET fraud_case ==
            [case_id |-> case_id,
             transaction_id |-> Get(transaction_data, "transaction_id", "None"),
             user_id |-> Get(transaction_data, "user_id", "None"),
             risk_score |-> risk_assessment.risk_score,
             status |-> risk_assessment.status,
             amount |-> Get(transaction_data, "transaction_amount", 0),
             fraud_report |-> call_bedrock_claude(llm)]
        sns_result == send_sns_alert(alert_ok)
    IN  IF sns_result.raised
        THEN [raised |-> TRUE,
              fraud_cases |-> create_fraud_case(cases, fraud_case)]
        ELSE [raised |-> FALSE,
              result |-> [case_id |-> case_id,
                          fraud_report |-> fraud_case.fraud_report,
                          alerts_sent |-> <<sns_result.value.MessageId>>,
                          agent |-> "escalation_handler"],
              fraud_cases |-> create_fraud_case(cases, fraud_case)]

\* The replies of the text-generation service to the five prompts of one
\* run of the orchestrator.
GeneratedTexts ==
    [monitor : BedrockReplies, deepfake : BedrockReplies,
     evidence : BedrockReplies, risk : BedrockReplies,
     escalation : BedrockReplies]

QuietTexts ==
    [monitor |-> QuietReply, deepfake |-> QuietReply, evidence |-> QuietReply,
     risk |-> QuietReply, escalation |-> QuietReply]

\* What the collaborators answer during one run of the orchestrator.
Envs ==
    [prob : ProbOutcomes,
     detection : {[is_deepfake |-> FALSE, face_match_score |-> 95,
                   code_validated |-> TRUE],
                  [is_deepfake |-> TRUE, face_match_score |-> 50,
                   code_validated |-> FALSE],
                  [is_deepfake |-> FALSE, face_match_score |-> 79,
                   code_validated |-> TRUE],
                  [is_deepfake |-> FALSE, face_match_score |-> 80,
                   code_validated |-> FALSE]},
     profile : {DefaultProfile},
     recent : RecentCounts,
     case_id : CaseIds,
     alert_ok : BOOLEAN,
     texts : {QuietTexts}]

\* The short-circuit test at orchestrator.py line 46.
biometric_failed_is_deepfake_only(deepfake_result) ==
    deepfake_result.is_deepfake

biometric_failed(deepfake_result) ==
    deepfake_result.is_deepfake \/ ~deepfake_result.verification_passed

\* The escalation test at orchestrator.py line 74.
should_escalate_strict(risk_assessment) ==
    risk_assessment.risk_score > EscalationThreshold

should_escalate(risk_assessment) ==
    risk_assessment.risk_score >= EscalationThreshold

\* Lines 81-82 with the status of the assessment rewritten as well.
attach_escalation_marks_status(risk_assessment, escalation_result) ==
    DictPut(DictPut(DictPut(risk_assessment, "case_id",
                            Get(escalation_result, "case_id", None)),
                    "alerts_sent",
                    Get(escalation_result, "alerts_sent", None)),
            "status", "ESCALATED")

\* orchestrator.py lines 81-82: what the orchestrator writes into the
\* assessment after an escalation.
attach_escalation(risk_assessment, escalation_result) ==
    DictPut(DictPut(risk_assessment, "case_id",
                    Get(escalation_result, "case_id", None)),
            "alerts_sent", Get(escalation_result, "alerts_sent", None))

\* orchestrate_transaction with the test of line 46 made only after the
\* evidence, the assessment and the escalation.
orchestrate_outcome_blocks_last(transaction_data, run_deepfake, monitor_result, deepfake_result, evidence, risk_assessment, case_id, cases, alert_ok, llm) ==
    LET escalate == should_escalate(risk_assessment)
        escalation ==
            handle_escalation(transaction_data, risk_assessment, evidence,
                              case_id, cases, alert_ok, llm)
        ran == <<"transaction_monitor">>
               \o (IF run_deepfake THEN <<"deepfake_detector">> ELSE <<>>)
               \o <<"evidence_collector", "risk_assessor">>
               \o (IF escalate THEN <<"escalation_handler">> ELSE <<>>)
        final_assessment ==
            IF escalate
            THEN attach_escalation(risk_assessment, escalation.result)
            ELSE risk_assessment
    IN  IF escalate /\ escalation.raised
        THEN [raised |-> TRUE,
              fraud_cases |-> escalation.fraud_cases,
              agents |-> ran]
        ELSE IF run_deepfake /\ biometric_failed(deepfake_result)
        THEN [raised |-> FALSE,
              result |-> [status |-> "BLOCKED",
                          risk_score |-> 100,
                          reason |-> "Deepfake authentication detected",
                          deepfake_result |-> deepfake_result],
              fraud_cases |-> IF escalate THEN escalation.fraud_cases
                              ELSE cases,
              agents |-> ran]
        ELSE [raised |-> FALSE,
              result |-> [status |-> final_assessment.status,
                          risk_score |-> final_assessment.risk_score,
                          monitor_result |-> monitor_result,
                          deepfake_result |-> deepfake_result,
                          evidence |-> evidence,
                          risk_assessment |-> final_assessment],
              fraud_cases |-> IF escalate THEN escalation.fraud_cases
                              ELSE cases,
              agents |-> ran]

\* orchestrator.py lines 46-98: what orchestrate_transaction returns once
\* the monitor, the biometric check (when asked for), the evidence and the
\* risk assessment are at hand.  The short-circuit at line 46 is taken
\* before the evidence and the assessment are looked at.
orchestrate_outcome(transaction_data, run_deepfake, monitor_result, deepfake_result, evidence, risk_assessment, case_id, cases, alert_ok, llm) ==
    LET escalate == should_escalate(risk_assessment)
        escalation ==
            handle_escalation(transaction_data, risk_assessment, evidence,
                              case_id, cases, alert_ok, llm)
        ran == <<"transaction_monitor">>
               \o (IF run_deepfake THEN <<"deepfake_detector">> ELSE <<>>)
               \o <<"evidence_collector", "risk_assessor">>
               \o (IF escalate THEN <<"escalation_handler">> ELSE <<>>)
        final_assessment ==
            IF escalate
            THEN attach_escalation(risk_assessment, escalation.result)
            ELSE risk_assessment
    IN  IF run_deepfake /\ biometric_failed(deepfake_result)
        THEN [raised |-> FALSE,
              result |-> [status |-> "BLOCKED",
                          risk_score |-> 100,
                          reason |-> "Deepfake authentication detected",
                          deepfake_result |-> deepfake_result],
              fraud_cases |-> cases,
              agents |-> <<"transaction_monitor", "deepfake_detector">>]
        ELSE IF escalate /\ escalation.raised
        THEN [raised |-> TRUE,
              fraud_cases |-> escalation.fraud_cases,
              agents |-> ran]
        ELSE [raised |-> FALSE,
              result |-> [status |-> final_assessment.status,
                          risk_score |-> final_assessment.risk_score,
                          monitor_result |-> monitor_result,
                          deepfake_result |-> deepfake_result,
                          evidence |-> evidence,
                          risk_assessment |-> final_assessment],
              fraud_cases |-> IF escalate THEN escalation.fraud_cases
                              ELSE cases,
              agents |-> ran]

\* orchestrator.orchestrate_transaction: the dict it returns, the case
\* store it leaves and the agents it ran, in order.
orchestrate_transaction(transaction_data, photo_data, verification_code, env, cases) ==
    LET monitor_result ==
            analyze_transaction(predict_fraud_probability(env.prob),
                                env.texts.monitor)
        run_deepfake == photo_data # None /\ TruthyStr(verification_code)
        deepfake_result ==
            IF run_deepfake
            THEN analyze_deepfake(env.detection, env.texts.deepfake)
            ELSE None
        evidence ==
            collect_evidence(transaction_data, env.profile, env.recent,
                             env.texts.evidence)
    IN  orchestrate_outcome(
            transaction_data, run_deepfake, monitor_result, deepfake_result,
            evidence,
            assess_risk(monitor_result, deepfake_result, evidence,
                        env.texts.risk),
            env.case_id, cases, env.alert_ok, env.texts.escalation)

\* The fields of main.TransactionRequest that the pipeline reads.
Requests ==
    [user_id : {"U1"},
     transaction_amount : {0, 200, MaxAmount, MaxAmount + 1},
     transaction_type : {"Online"}, merchant_category : {"Retail"},
     device_type : {"Desktop"}]
    \cup
    [user_id : {""}, transaction_amount : {200},
     transaction_type : {"Online"}, merchant_category : {"Retail"},
     device_type : {"Desktop"}]

\* What the collaborators answer during pre-screening.
PreScreens == [prob : {100, 900}, profile : {DefaultProfile}, hour : {12}]

\* main.submit_transaction: the response and the stores it leaves.
\* transaction_id and verification_code are the values drawn at lines 131
\* and 173.
submit_transaction(request, transaction_id, pre, verification_code, env, store, cases) ==
    LET transaction_data == DictPut(request, "transaction_id", transaction_id)
        valid == validate_transaction_data(transaction_data)
        fraud_probability == predict_fraud_probability(pre.prob)
        flag == calculate_suspicious_flag(transaction_data, fraud_probability,
                                          pre.profile, pre.hour)
        Verdict(run) ==
            [response |-> IF run.raised
                          THEN [http |-> 500,
                                detail |-> "Internal server error"]
                          ELSE [http |-> 200,
                                status |-> run.result.status,
                                transaction_id |-> transaction_id,
                                risk_score |-> run.result.risk_score,
                                result |-> run.result],
             MOCK_TRANSACTIONS |-> store,
             MOCK_FRAUD_CASES |-> run.fraud_cases,
             calls |-> <<"validate_transaction_data",
                         "predict_fraud_probability",
                         "calculate_suspicious_flag",
                         "orchestrate_transaction">>,
             agents |-> run.agents]
    IN  IF ~valid.is_valid
        THEN [response |-> [http |-> 400, detail |-> valid.error_msg],
              MOCK_TRANSACTIONS |-> store,
              MOCK_FRAUD_CASES |-> cases,
              calls |-> <<"validate_transaction_data">>,
              agents |-> <<>>]
        ELSE IF flag.is_suspicious
        THEN [response |-> [http |-> 200,
                            status |-> "VERIFICATION_REQUIRED",
                            transaction_id |-> transaction_id,
                            verification_code |-> verification_code,
                            reasons |-> flag.reasons],
              MOCK_TRANSACTIONS |->
                  save_pending_transaction(store, transaction_id,
                                           transaction_data,
                                           verification_code, flag.reasons),
              MOCK_FRAUD_CASES |-> cases,
              calls |-> <<"validate_transaction_data",
                          "predict_fraud_probability",
                          "calculate_suspicious_flag",
                          "save_pending_transaction">>,
              agents |-> <<>>]
        ELSE Verdict(orchestrate_transaction(transaction_data, None, NoCode,
                                             env, cases))

\* The code test at main.py line 260 (its negation).
code_matches_always(stored_code, verification_code) == TRUE

code_matches(stored_code, verification_code) ==
    stored_code = verification_code

\* main.verify_biometric: the response and the stores it leaves.
verify_biometric(transaction_id, verification_code, filename, env, store, cases, photos) ==
    LET transaction_data == get_pending_transaction(store, transaction_id)
        photo_s3_path == save_uploaded_photo(transaction_id, filename)
        Verdict(run) ==
            [response |-> IF run.raised
                          THEN [http |-> 500,
                                detail |-> "Internal server error"]
                          ELSE [http |-> 200,
                                status |-> run.result.status,
                                transaction_id |-> transaction_id,
                                risk_score |-> run.result.risk_score,
                                result |-> run.result],
             MOCK_FRAUD_CASES |-> run.fraud_cases,
             uploaded_photos |-> photos \cup {photo_s3_path},
             agents |-> run.agents]
    IN  IF transaction_data = None
        THEN [response |-> [http |-> 404,
                            detail |-> "not found or already processed"],
              MOCK_FRAUD_CASES |-> cases,
              uploaded_photos |-> photos,
              agents |-> <<>>]
        ELSE IF ~code_matches(transaction_data.verification_code,
                              verification_code)
        THEN [response |-> [http |-> 400,
                            detail |-> "Invalid verification code"],
              MOCK_FRAUD_CASES |-> cases,
              uploaded_photos |-> photos,
              agents |-> <<>>]
        ELSE Verdict(orchestrate_transaction(
                         transaction_data,
                         [s3_path |-> photo_s3_path, filename |-> filename],
                         verification_code, env, cases))

\* The reply of the mock endpoint, aws_services.py lines 139-144.
MockDetection ==
    [is_deepfake |-> FALSE, face_match_score |-> 95, code_validated |-> TRUE]

\* One representative of the answers a run never asks for: the biometric
\* endpoint is not called without a photo, evidence and the classifier's
\* second answer are not used once the run is blocked, and no case id is
\* drawn and no alert sent unless the run escalates.
EnvsAsked(transaction_data, photo_data, verification_code) ==
    LET first == CHOOSE c \in CaseIds : TRUE
        Representative(e, ran) ==
            LET names == { ran[i] : i \in 1..Len(ran) }
            IN  /\ "deepfake_detector" \notin names
                      => e.detection = MockDetection
                /\ "risk_assessor" \notin names
                      => e.recent = 2 /\ e.prob = 100
                /\ "escalation_handler" \notin names
                      => e.case_id = first /\ e.alert_ok
    IN  { e \in Envs :
            Representative(e, orchestrate_transaction(
                                  transaction_data, photo_data,
                                  verification_code, e, EmptyDict).agents) }

\* POST /api/transaction/submit
SubmitTransaction ==
    /\ requests < MaxRequests
    /\ \E request \in Requests, transaction_id \in TxnIds :
       LET transaction_data ==
               DictPut(request, "transaction_id", transaction_id)
           valid == validate_transaction_data(transaction_data).is_valid
       IN
       \E pre \in IF valid THEN PreScreens
                  ELSE {CHOOSE x \in PreScreens : TRUE} :
       LET suspicious ==
               valid /\ calculate_suspicious_flag(
                            transaction_data,
                            predict_fraud_probability(pre.prob),
                            pre.profile, pre.hour).is_suspicious
       IN
       \E verification_code \in IF suspicious THEN Codes ELSE {NoCode},
          env \in IF valid /\ ~suspicious
                  THEN EnvsAsked(transaction_data, None, NoCode)
                  ELSE {CHOOSE x \in Envs : TRUE} :
          \E out \in {submit_transaction(request, transaction_id, pre,
                                         verification_code, env,
                                         MOCK_TRANSACTIONS,
                                         MOCK_FRAUD_CASES)} :
              /\ MOCK_TRANSACTIONS' = out.MOCK_TRANSACTIONS
              /\ MOCK_FRAUD_CASES' = out.MOCK_FRAUD_CASES
              /\ last' = [op |-> "submit",
                          request |-> request,
                          transaction_id |-> transaction_id,
                          suspicious |-> suspicious,
                          response |-> out.response,
                          calls |-> out.calls,
                          agents |-> out.agents]
              /\ processed' = IF suspicious
                              THEN processed \ {transaction_id}
                              ELSE processed
    /\ requests' = requests + 1
    /\ UNCHANGED <<parse, ev, gate, risk, fd, runs, uploaded_photos>>

\* POST /api/transaction/verify
VerifyBiometric ==
    /\ requests < MaxRequests
    /\ \E transaction_id \in TxnIds, verification_code \in Codes \cup {""} :
       LET pending == get_pending_transaction(MOCK_TRANSACTIONS,
                                              transaction_id)
           accepted == pending # None
                       /\ code_matches(pending.verification_code,
                                       verification_code)
       IN
       \E env \in IF accepted
                  THEN EnvsAsked(pending, [s3_path |-> "", filename |-> ""],
                                 verification_code)
                  ELSE {CHOOSE x \in Envs : TRUE} :
          \E out \in {verify_biometric(transaction_id, verification_code,
                                       "selfie.jpg", env, MOCK_TRANSACTIONS,
                                       MOCK_FRAUD_CASES, uploaded_photos)} :
              /\ MOCK_FRAUD_CASES' = out.MOCK_FRAUD_CASES
              /\ uploaded_photos' = out.uploaded_photos
              /\ last' = [op |-> "verify",
                          transaction_id |-> transaction_id,
                          request_code |-> verification_code,
                          response |-> out.response,
                          agents |-> out.agents]
              /\ processed' = IF out.response.http = 200
                              THEN processed \cup {transaction_id}
                              ELSE processed
    /\ requests' = requests + 1
    /\ UNCHANGED <<parse, ev, gate, risk, fd, runs, MOCK_TRANSACTIONS>>

Init ==
    /\ gate = GateIdle
    /\ risk = RiskIdle
    /\ fd = FdIdle
    /\ runs = RunsIdle
    /\ parse = ParseIdle
    /\ ev = EvIdle
    /\ PipelineIdle

Next == SubmitTransaction \/ VerifyBiometric

Spec == Init /\ [][Next]_vars

(***************************************************************************)
(* orchestrate_transaction run twice on the same transaction with the same *)
(* answers of every collaborator except the generated texts.               *)
(***************************************************************************)
\* The five prompts of a run all answered by the same reply.
TextSamples ==
    {[monitor |-> r, deepfake |-> r, evidence |-> r, risk |-> r,
      escalation |-> r] : r \in BedrockReplies}

RunsTxns ==
    {DictPut(request, "transaction_id", "TXN_10000") :
        request \in {r \in Requests : validate_transaction_data(r).is_valid}}

\* (photo_data, verification_code) as submit and verify pass them.
RunsBiometrics ==
    {[photo_data |-> None, verification_code |-> NoCode],
     [photo_data |-> [s3_path |-> "s3://mock-bucket/uploads/TXN_10000_a.jpg",
                      filename |-> "a.jpg"],
      verification_code |-> "100000"]}

RunsInit ==
    /\ runs \in [phase : {"run"},
                 transaction_data : RunsTxns,
                 biometric : RunsBiometrics,
                 env : Envs,
                 texts : [first : TextSamples, second : TextSamples],
                 first : {None},
                 second : {None}]
    /\ gate = GateIdle
    /\ risk = RiskIdle
    /\ fd = FdIdle
    /\ parse = ParseIdle
    /\ ev = EvIdle
    /\ PipelineIdle

\* The first run, with the texts runs.texts.first.
RunFirst ==
    /\ runs.phase = "run"
    /\ runs.first = None
    /\ runs' = [runs EXCEPT !.first =
                  orchestrate_transaction(
                      runs.transaction_data, runs.biometric.photo_data,
                      runs.biometric.verification_code,
                      [runs.env EXCEPT !.texts = runs.texts.first],
                      EmptyDict)]
    /\ UNCHANGED <<parse, ev, gate, risk, fd, pipelineVars>>

\* The second run, with the texts runs.texts.second.
RunSecond ==
    /\ runs.phase = "run"
    /\ runs.second = None
    /\ runs' = [runs EXCEPT !.second =
                  orchestrate_transaction(
                      runs.transaction_data, runs.biometric.photo_data,
                      runs.biometric.verification_code,
                      [runs.env EXCEPT !.texts = runs.texts.second],
                      EmptyDict)]
    /\ UNCHANGED <<parse, ev, gate, risk, fd, pipelineVars>>

RunsNext == RunFirst \/ RunSecond

SpecTexts == RunsInit /\ [][RunsNext]_vars

(***************************************************************************)
(* backend/orchestrator.py: orchestrate_fraud_detection, with the LLM risk *)
(* assessor of backend/agents/risk_assessor.py.                            *)
(*                                                                         *)
(* The three agent functions and the text-generation service are           *)
(* collaborators: a call of one returns a value or raises.  A dict is a    *)
(* record; an exception object that no handler turned into a dict is       *)
(* [exception |-> message].                                                *)
(***************************************************************************)
ExceptionObject(msg) == [exception |-> msg]

\* The value has dict methods (.get): it is neither None nor an exception.
IsDict(v) == v # None /\ "exception" \notin DOMAIN v

\* Result slot of a task that has not finished.
Pending == [pending |-> TRUE]

\* agents.transaction_monitor.analyze_transaction: what a call does.
FraudOutcomes ==
    {[raised |-> TRUE, error |-> "fraud model unavailable"],
     [raised |-> FALSE,
      value |-> [final_verdict |-> "APPROVED", final_score |-> 12]],
     [raised |-> FALSE,
      value |-> [final_verdict |-> "REJECTED", final_score |-> 93]]}

\* agents.evidence_collector.collect_evidence: what a call does.
EvidenceOutcomes ==
    {[raised |-> TRUE, error |-> "history store timeout"],
     [raised |-> FALSE,
      value |-> [detected_patterns |-> <<>>,
                 agent |-> "evidence_collector"]],
     [raised |-> FALSE,
      value |-> [detected_patterns |-> <<"Multiple transactions within 1 hour">>,
                 agent |-> "evidence_collector"]]}

\* agents.deepfake_detector.analyze_deepfake_verification: what a call does.
DeepfakeOutcomes ==
    {[raised |-> TRUE, error |-> "biometric service unreachable"],
     [raised |-> FALSE,
      value |-> [verification_summary |-> [is_authentic |-> TRUE],
                 final_verdict |-> "APPROVED"]],
     [raised |-> FALSE,
      value |-> [verification_summary |-> [is_authentic |-> FALSE],
                 final_verdict |-> "REJECTED"]]}

\* orchestrator.run_transaction_monitor
run_transaction_monitor(outcome) ==
    IF outcome.raised
    THEN [error |-> outcome.error, agent |-> "transaction_monitor"]
    ELSE outcome.value

\* run_evidence_collector without its except clause: asyncio.gather with
\* return_exceptions=True hands the exception object over as the result.
run_evidence_collector_uncaught(outcome) ==
    IF outcome.raised THEN ExceptionObject(outcome.error) ELSE outcome.value

\* orchestrator.run_evidence_collector
run_evidence_collector(outcome) ==
    IF outcome.raised
    THEN [error |-> outcome.error, agent |-> "evidence_collector"]
    ELSE outcome.value

\* orchestrator.run_deepfake_detector
run_deepfake_detector(photo_s3_path, outcome) ==
    IF ~TruthyStr(photo_s3_path)
    THEN None
    ELSE IF outcome.raised
    THEN [error |-> outcome.error, agent |-> "deepfake_detector"]
    ELSE outcome.value

\* Texts the text-generation service answers the risk prompt with.
NovaApproved == "{\"final_verdict\": \"APPROVED\", \"confidence_score\": 90, \"risk_level\": \"LOW\"}"
NovaRejected == "{\"final_verdict\": \"REJECTED\", \"confidence_score\": 95, \"risk_level\": \"CRITICAL\"}"
NovaProse == "I am unable to assess this transaction."
NovaWrapped == "Here is my assessment: {\"final_verdict\": \"APPROVED\"}"
NovaArray == "[\"APPROVED\", 90]"
NovaOtherObject == "{\"verdict\": \"APPROVED\", \"reasoning\": \"looks fine\"}"

NovaTexts ==
    {NovaApproved, NovaRejected, NovaProse, NovaWrapped, NovaArray,
     NovaOtherObject}

\* tools.nova_tools.call_nova: the text returned, or the call raises.
NovaReplies ==
    {[raised |-> TRUE]} \cup {[raised |-> FALSE, text |-> t] : t \in NovaTexts}

\* json.loads on those texts: the parsed value with its Python type, or
\* JSONDecodeError (ok is FALSE).
json_loads(text) ==
    CASE text = NovaApproved ->
             [ok |-> TRUE, type |-> "dict",
              value |-> [final_verdict |-> "APPROVED",
                         confidence_score |-> 90, risk_level |-> "LOW"]]
      [] text = NovaRejected ->
             [ok |-> TRUE, type |-> "dict",
              value |-> [final_verdict |-> "REJECTED",
                         confidence_score |-> 95, risk_level |-> "CRITICAL"]]
      [] text = NovaArray ->
             [ok |-> TRUE, type |-> "list", value |-> <<"APPROVED", 90>>]
      [] text = NovaOtherObject ->
             [ok |-> TRUE, type |-> "dict",
              value |-> [verdict |-> "APPROVED", reasoning |-> "looks fine"]]
      [] OTHER -> [ok |-> FALSE]

\* agents.risk_assessor.assess_risk (the LLM assessor the parallel
\* orchestrator imports).  nova is what call_nova does when called.
assess_risk_llm(fraud_result, evidence_result, deepfake_result, nova) ==
    LET \* build_risk_assessment_prompt calls .get on its arguments
        prompt_raises ==
            \/ ~IsDict(fraud_result)
            \/ ~IsDict(evidence_result)
            \/ (deepfake_result # None /\ ~IsDict(deepfake_result))
        \* the dict of the outer except clause, lines 212-223
        on_exception ==
            [final_verdict |-> "REVIEW", confidence_score |-> 0,
             risk_level |-> "UNKNOWN",
             recommended_action |-> "Manual review required",
             agent |-> "risk_assessor", error |-> "exception"]
        \* the dict of the JSONDecodeError clause, lines 182-190
        on_decode_error ==
            [final_verdict |-> "REVIEW", confidence_score |-> 50,
             risk_level |-> "MEDIUM",
             recommended_action |-> "Manual review required"]
        \* lines 193-199
        WithMetadata(assessment) ==
            DictPut(DictPut(assessment, "agent", "risk_assessor"),
                    "agents_analyzed",
                    [fraud_detection |-> TRUE,
                     evidence_collection |-> TRUE,
                     biometric_verification |->
                         (deepfake_result # None
                          /\ ~TruthyStr(Get(deepfake_result, "error", "")))])
        Parsed(parsed) ==
            IF ~parsed.ok THEN WithMetadata(on_decode_error)
            ELSE IF parsed.type # "dict" THEN on_exception
            ELSE WithMetadata(parsed.value)
    IN  IF prompt_raises \/ nova.raised
        THEN on_exception
        ELSE Parsed(json_loads(nova.text))

\* orchestrator.py lines 116-156: the dict orchestrate_fraud_detection
\* returns, or that building it raised.
complete_result(fraud_result, evidence_result, deepfake_result, risk_assessment) ==
    IF \/ ~IsDict(fraud_result)
       \/ ~IsDict(evidence_result)
       \/ (deepfake_result # None /\ ~IsDict(deepfake_result))
    THEN [raised |-> TRUE]
    ELSE [raised |-> FALSE,
          value |->
            [risk_assessment |-> risk_assessment,
             agent_results |->
                 [agent_1_fraud_detection |-> fraud_result,
                  agent_2_evidence_collection |-> evidence_result,
                  agent_3_biometric_verification |-> deepfake_result,
                  agent_4_risk_assessment |-> risk_assessment],
             summary |->
                 [final_verdict |->
                      Get(risk_assessment, "final_verdict", "None"),
                  ml_fraud_score |-> Get(fraud_result, "final_score", 0),
                  suspicious_patterns |->
                      Len(Get(evidence_result, "detected_patterns", <<>>)),
                  photo_verified |->
                      (deepfake_result # None
                       /\ ~TruthyStr(Get(deepfake_result, "error", "")))]]]

\* The three coroutines handed to asyncio.gather, in the order of the list
\* at orchestrator.py lines 81-85.
Phase1Agents == <<"transaction_monitor", "evidence_collector", "deepfake_detector">>

Phase1Names == {Phase1Agents[i] : i \in 1..3}

\* asyncio.gather resolving on the first finished task instead of on all.
gather_done_any(results) == \E a \in Phase1Names : results[a] # Pending

\* asyncio.gather resolves once every task it was given has finished.
gather_done(results) == \A a \in Phase1Names : results[a] # Pending

PhotoPaths == {NoCode, "s3://verification/photo_1.jpg"}

\* One call of orchestrate_fraud_detection: its arguments and what each
\* collaborator does when called.  The event loop's choice of the next task
\* to step is left open.
FdInit ==
    /\ fd \in [phase : {"gather"},
               photo_s3_path : PhotoPaths,
               monitor : FraudOutcomes,
               evidence : EvidenceOutcomes,
               deepfake : DeepfakeOutcomes,
               nova : NovaReplies,
               results : {[a \in Phase1Names |-> Pending]},
               order : {<<>>},
               fraud_result : {Pending},
               evidence_result : {Pending},
               deepfake_result : {Pending},
               assess_calls : {0},
               assessed_with : {<<>>},
               risk_assessment : {None},
               result : {None}]
    /\ gate = GateIdle
    /\ risk = RiskIdle
    /\ runs = RunsIdle
    /\ parse = ParseIdle
    /\ ev = EvIdle
    /\ PipelineIdle

\* The task of run_transaction_monitor runs (it has no await: one step).
RunTransactionMonitor ==
    /\ fd.phase = "gather"
    /\ fd.results["transaction_monitor"] = Pending
    /\ fd' = [fd EXCEPT
                !.results["transaction_monitor"] =
                    run_transaction_monitor(fd.monitor),
                !.order = Append(@, "transaction_monitor")]
    /\ UNCHANGED <<parse, ev, gate, risk, runs, pipelineVars>>

\* The task of run_evidence_collector runs.
RunEvidenceCollector ==
    /\ fd.phase = "gather"
    /\ fd.results["evidence_collector"] = Pending
    /\ fd' = [fd EXCEPT
                !.results["evidence_collector"] =
                    run_evidence_collector(fd.evidence),
                !.order = Append(@, "evidence_collector")]
    /\ UNCHANGED <<parse, ev, gate, risk, runs, pipelineVars>>

\* The task of run_deepfake_detector runs.
RunDeepfakeDetector ==
    /\ fd.phase = "gather"
    /\ fd.results["deepfake_detector"] = Pending
    /\ fd' = [fd EXCEPT
                !.results["deepfake_detector"] =
                    run_deepfake_detector(fd.photo_s3_path, fd.deepfake),
                !.order = Append(@, "deepfake_detector")]
    /\ UNCHANGED <<parse, ev, gate, risk, runs, pipelineVars>>

\* The await of asyncio.gather returns; lines 87-91.
Gather ==
    /\ fd.phase = "gather"
    /\ gather_done(fd.results)
    /\ fd' = [fd EXCEPT
                !.phase = "assess",
                !.fraud_result = fd.results[Phase1Agents[1]],
                !.evidence_result = fd.results[Phase1Agents[2]],
                !.deepfake_result = fd.results[Phase1Agents[3]]]
    /\ UNCHANGED <<parse, ev, gate, risk, runs, pipelineVars>>

\* Phase 2, lines 102-107.
AssessRisk ==
    /\ fd.phase = "assess"
    /\ fd' = [fd EXCEPT
                !.phase = "build",
                !.assess_calls = @ + 1,
                !.assessed_with =
                    <<fd.fraud_result, fd.evidence_result, fd.deepfake_result>>,
                !.risk_assessment =
                    assess_risk_llm(fd.fraud_result, fd.evidence_result,
                                    fd.deepfake_result, fd.nova)]
    /\ UNCHANGED <<parse, ev, gate, risk, runs, pipelineVars>>

\* Phase 3 and the return, lines 116-156.
BuildResult ==
    /\ fd.phase = "build"
    /\ \E out \in {complete_result(fd.fraud_result, fd.evidence_result,
                                   fd.deepfake_result, fd.risk_assessment)} :
          fd' = [fd EXCEPT
                   !.phase = IF out.raised THEN "raised" ELSE "returned",
                   !.result = out]
    /\ UNCHANGED <<parse, ev, gate, risk, runs, pipelineVars>>

FdNext ==
    \/ RunTransactionMonitor
    \/ RunEvidenceCollector
    \/ RunDeepfakeDetector
    \/ Gather
    \/ AssessRisk
    \/ BuildResult

SpecFd == FdInit /\ [][FdNext]_vars

(***************************************************************************)
(* tools/deepfake_tools.py: parse_deepfake_result.                         *)
(* The response of the verification service is a dict in which every key   *)
(* may be missing; a sub-dict may also be JSON null (None).  The responses *)
(* drawn here carry the status and the three pass flags; their other keys  *)
(* (confidences, scores, checks, emotions) are missing.                    *)
(***************************************************************************)
Absent == [absent |-> TRUE]

\* d[k] = v, or d when the key is to be missing.
PutUnlessAbsent(d, k, v) == IF v = Absent THEN d ELSE DictPut(d, k, v)

\* A sub-dict holding one pass flag, the flag missing, the sub-dict null or
\* the sub-dict missing.
FlagDicts(flag) ==
    {Absent, None, EmptyDict} \cup {DictPut(EmptyDict, flag, b) : b \in BOOLEAN}

ApiResponses ==
    {PutUnlessAbsent(
        PutUnlessAbsent(
          PutUnlessAbsent(
            PutUnlessAbsent(EmptyDict, "verification_result", vr),
            "face_comparison", fc),
          "quality_check", qc),
        "liveness_check", lc) :
       vr \in {Absent, [text |-> "VERIFIED"], [text |-> "FAILED"]},
       fc \in FlagDicts("match"),
       qc \in FlagDicts("is_real"),
       lc \in FlagDicts("is_live")}

\* parse_deepfake_result with a missing liveness flag read as passed.
parse_deepfake_result_lenient(api_response) ==
    LET verification_result ==
            Get(api_response, "verification_result", [text |-> "UNKNOWN"]).text
        face_comparison == Get(api_response, "face_comparison", EmptyDict)
        quality_check == Get(api_response, "quality_check", EmptyDict)
        liveness_check == Get(api_response, "liveness_check", EmptyDict)
    IN  IF None \in {face_comparison, quality_check, liveness_check}
        THEN [raised |-> TRUE]
        ELSE [raised |-> FALSE,
              value |->
                [is_authentic |->
                     (/\ verification_result = "VERIFIED"
                      /\ Get(face_comparison, "match", FALSE)
                      /\ Get(quality_check, "is_real", FALSE)
                      /\ Get(liveness_check, "is_live", TRUE)),
                 verification_result |-> verification_result,
                 face_match |->
                     [matched |-> Get(face_comparison, "match", FALSE)],
                 deepfake_detection |->
                     [is_real |-> Get(quality_check, "is_real", FALSE)],
                 liveness_check |->
                     [is_live |-> Get(liveness_check, "is_live", TRUE)]]]

\* tools.deepfake_tools.parse_deepfake_result: the dict it returns, or that
\* it raised (.get on a sub-dict that is None, lines 71-73 and 78-80).
parse_deepfake_result(api_response) ==
    LET verification_result ==
            Get(api_response, "verification_result", [text |-> "UNKNOWN"]).text
        face_comparison == Get(api_response, "face_comparison", EmptyDict)
        quality_check == Get(api_response, "quality_check", EmptyDict)
        liveness_check == Get(api_response, "liveness_check", EmptyDict)
        f0 == <<>>
        f1 == IF ~Get(face_comparison, "match", FALSE)
              THEN Append(f0, "Face mismatch (similarity: 0%)") ELSE f0
        f2 == IF ~Get(quality_check, "is_real", FALSE)
              THEN Append(f1, "Potential deepfake detected") ELSE f1
        f3 == IF ~Get(liveness_check, "is_live", FALSE)
              THEN Append(f2, "Liveness check failed") ELSE f2
        \* checks is missing in these responses: not checks.get('eyes_open')
        f4 == Append(f3, "Eyes not visible")
    IN  IF None \in {face_comparison, quality_check, liveness_check}
        THEN [raised |-> TRUE]
        ELSE [raised |-> FALSE,
              value |->
                [is_authentic |->
                     (/\ verification_result = "VERIFIED"
                      /\ Get(face_comparison, "match", FALSE)
                      /\ Get(quality_check, "is_real", FALSE)
                      /\ Get(liveness_check, "is_live", FALSE)),
                 verification_result |-> verification_result,
                 face_match |->
                     [matched |-> Get(face_comparison, "match", FALSE)],
                 deepfake_detection |->
                     [is_real |-> Get(quality_check, "is_real", FALSE)],
                 liveness_check |->
                     [is_live |-> Get(liveness_check, "is_live", FALSE)],
                 risk_factors |-> f4]]

ParseInit ==
    /\ parse \in [phase : {"call"}, api_response : ApiResponses,
                  out : {None}]
    /\ gate = GateIdle
    /\ risk = RiskIdle
    /\ fd = FdIdle
    /\ runs = RunsIdle
    /\ ev = EvIdle
    /\ PipelineIdle

\* One call of parse_deepfake_result.
ParseCall ==
    /\ parse.phase = "call"
    /\ parse' = [parse EXCEPT !.phase = "done",
                              !.out = parse_deepfake_result(parse.api_response)]
    /\ UNCHANGED <<ev, gate, risk, fd, runs, pipelineVars>>

ParseNext == ParseCall

SpecParse == ParseInit /\ [][ParseNext]_vars

(***************************************************************************)
(* Evidence collector of the batch backend: is_within_24h, build_timeline, *)
(* detect_patterns (agents/evidence_collector.py) and the history query    *)
(* that feeds them (tools/dynamodb_tools.py)                               *)
(***************************************************************************)
\* Instants are counted in half hours: timedelta(hours=1).
Hour == 2

\* timedelta(hours=24)
Day == 24 * Hour

\* The readings of datetime.now() between two calls: the first one and one
\* an hour later.
ClockReadings == {0, Hour}

\* A 'Timestamp' that datetime.fromisoformat rejects, such as "yesterday".
Malformed == [kind |-> "malformed"]

\* "2024-01-15T10:30:00Z": an ISO string with an offset.
Aware(at) == [kind |-> "aware", at |-> at]

\* "2024-01-15T10:30:00": an ISO string without an offset, read as local time.
Naive(at) == [kind |-> "naive", at |-> at]

\* The 'Timestamp' values of history records: none, unparsable, and ISO
\* strings 0, 30 and 90 minutes, 23.5 hours and 25 hours before the first
\* clock reading.
Timestamps ==
    {Absent, Malformed} \cup {Aware(0 - a) : a \in {0, 1, 3, 47, 50}}
                        \cup {Naive(0 - a) : a \in {0, 3}}

\* is_within_24h(timestamp) read at the clock reading now.
is_within_24h(timestamp, now) ==
    IF timestamp = Absent THEN FALSE
    ELSE IF timestamp.kind = "malformed" THEN FALSE
    ELSE (now - timestamp.at) <= Day

\* x not in a list
NotIn(x, list) == \A i \in 1..Len(list) : list[i] # x

\* f"{n:03d}"
Pad3(n) ==
    IF n < 10 THEN "00" \o ToString(n)
    ELSE IF n < 100 THEN "0" \o ToString(n) ELSE ToString(n)

\* f"${float(n):,.2f}" of a whole amount below a million.
Money(n) ==
    IF n < 1000 THEN "$" \o ToString(n) \o ".00"
    ELSE "$" \o ToString(n \div 1000) \o "," \o Pad3(n % 1000) \o ".00"

\* The texts of the seven patterns, without their leading pictograph.
AmountAnomaly(current_amount, avg_amount) ==
    "Amount " \o ToString(current_amount \div avg_amount)
              \o "x higher than user average (" \o Money(avg_amount) \o ")"

HighVelocity(n) ==
    "High velocity: " \o ToString(n) \o " transactions in last 24 hours"

NewDevice(current_device) == "New device detected: " \o current_device

NewLocation(current_location) == "New location: " \o current_location

FirstMerchant(current_merchant) == "First transaction at " \o current_merchant

FraudHistory(n) == "User has " \o ToString(n) \o " previous fraud flags"

RapidSuccession == "Multiple transactions within 1 hour"

\* recent_24h = [t for t in transaction_history if is_within_24h(...)]
Recent24h(transaction_history, now) ==
    SelectSeq(transaction_history,
              LAMBDA t : is_within_24h(Get(t, "Timestamp", Absent), now))

\* recent_times[0] - recent_times[-1] over recent_24h[:3]: subtracting an
\* offset-aware from an offset-naive datetime raises TypeError.
SubtractionRaises(recent_24h) ==
    /\ Len(recent_24h) >= 3
    /\ recent_24h[1].Timestamp.kind # recent_24h[3].Timestamp.kind

\* time_diff, in half hours
time_diff(recent_24h) ==
    recent_24h[1].Timestamp.at - recent_24h[3].Timestamp.at

\* detect_patterns(transaction_data, user_profile, transaction_history) read
\* at the clock reading now: the list it returns, or the exception it lets
\* out.
detect_patterns(transaction_data, user_profile, transaction_history, now) ==
    LET current_amount == Get(transaction_data, "transaction_amount", 0)
        avg_amount == Get(user_profile, "avg_transaction_amount", 0)
        recent_24h == Recent24h(transaction_history, now)
        current_device == Get(transaction_data, "device_type", NoCode)
        current_location == Get(transaction_data, "location", NoCode)
        current_merchant == Get(transaction_data, "merchant_category", NoCode)
        fraud_history == Get(user_profile, "fraud_history", 0)
        p1 == IF avg_amount > 0 /\ current_amount > avg_amount * 5
              THEN <<AmountAnomaly(current_amount, avg_amount)>> ELSE <<>>
        p2 == IF Len(recent_24h) > 10
              THEN <<HighVelocity(Len(recent_24h))>> ELSE <<>>
        p3 == IF /\ TruthyStr(current_device)
                 /\ NotIn(current_device, Get(user_profile, "known_devices", <<>>))
              THEN <<NewDevice(current_device)>> ELSE <<>>
        p4 == IF /\ TruthyStr(current_location)
                 /\ NotIn(current_location, Get(user_profile, "known_locations", <<>>))
              THEN <<NewLocation(current_location)>> ELSE <<>>
        p5 == IF /\ TruthyStr(current_merchant)
                 /\ NotIn(current_merchant, Get(user_profile, "known_merchants", <<>>))
              THEN <<FirstMerchant(current_merchant)>> ELSE <<>>
        p6 == IF fraud_history > 0 THEN <<FraudHistory(fraud_history)>> ELSE <<>>
        p7 == IF Len(recent_24h) >= 3 /\ time_diff(recent_24h) < Hour
              THEN <<RapidSuccession>> ELSE <<>>
    IN  IF SubtractionRaises(recent_24h)
        THEN [raised |-> TRUE]
        ELSE [raised |-> FALSE,
              value |-> p1 \o p2 \o p3 \o p4 \o p5 \o p6 \o p7]

\* One timeline entry of a historical transaction.
HistoryEntry(txn) ==
    [time |-> Get(txn, "Timestamp", None),
     event |-> Money(Get(txn, "Transaction_Amount", 0)) \o " at "
               \o Get(txn, "Merchant_Category", "Unknown")
               \o " (" \o Get(txn, "Location", "Unknown") \o ")",
     type |-> Get(txn, "Transaction_Type", "Unknown"),
     fraud_flag |-> Get(txn, "Fraud_Label", 0)]

\* The timeline entry of the transaction under analysis.
CurrentEntry(current_transaction, now) ==
    [time |-> Naive(now),
     event |-> "CURRENT: " \o Money(Get(current_transaction, "transaction_amount", 0))
               \o " at " \o Get(current_transaction, "merchant_category", "Unknown")
               \o " (" \o Get(current_transaction, "location", "Unknown") \o ")",
     type |-> Get(current_transaction, "transaction_type", "Unknown"),
     fraud_flag |-> 0]

\* list[-5:]
LastFive(list) ==
    SubSeq(list, IF Len(list) > 5 THEN Len(list) - 4 ELSE 1, Len(list))

\* [f(x) for x in list]
MapEntries(list) == [i \in 1..Len(list) |-> HistoryEntry(list[i])]

\* build_timeline(transaction_history, current_transaction)
build_timeline(transaction_history, current_transaction, now) ==
    Append(MapEntries(LastFive(transaction_history)),
           CurrentEntry(current_transaction, now))

RECURSIVE NewestFirst(_)
\* The items of a query with ScanIndexForward=False: descending by the
\* 'Timestamp' sort key.
NewestFirst(items) ==
    IF items = {} THEN <<>>
    ELSE LET newest == CHOOSE t \in items :
                           \A u \in items : u.Timestamp.at <= t.Timestamp.at
         IN  <<newest>> \o NewestFirst(items \ {newest})

\* Limit=limit
QueryLimit == 100

\* get_user_transaction_history(user_id, days=None, limit=100) over the
\* items stored for the user.
get_user_transaction_history(items) ==
    LET transactions == NewestFirst(items)
    IN  SubSeq(transactions, 1, Min(Len(transactions), QueryLimit))

\* The largest number of calls of detect_patterns on one input.
MaxDetects == 2

\* The largest number of transactions stored for the user.
MaxStored == 7

\* A history record with the given 'Timestamp' (none when absent).
TimestampRecord(ts) == PutUnlessAbsent(EmptyDict, "Timestamp", ts)

\* n records made ten hours before the first clock reading.
Filler(n) == [i \in 1..n |-> TimestampRecord(Aware(0 - 20))]

\* Histories handed to detect_patterns: none or three records with any of
\* the timestamps in any order, alone or followed by nine older records.
PatternHistories ==
    {[i \in 1..Len(stamps) |-> TimestampRecord(stamps[i])] \o Filler(n) :
         stamps \in {<<>>} \cup [1..3 -> Timestamps], n \in {0, 9}}

PatternTransactions ==
    [transaction_amount : {200, 6000}, device_type : {"Desktop", "Tablet"},
     location : {"Mumbai", "Lagos"}, merchant_category : {"Retail", "Crypto"}]

PatternProfiles ==
    [avg_transaction_amount : {1000}, fraud_history : {0, 2},
     known_devices : {<<"Desktop", "Mobile">>},
     known_locations : {<<"Mumbai", "Delhi">>},
     known_merchants : {<<"Retail", "Food">>}]

\* The i-th newest stored transaction, made i half hours before the first
\* clock reading.
Item(i, flagged) ==
    [Timestamp |-> Aware(0 - i), Transaction_Amount |-> 300 * i,
     Fraud_Label |-> IF i \in flagged THEN 1 ELSE 0]

StoredItems ==
    {{Item(i, flagged) : i \in 1..n} : n \in 0..MaxStored,
                                       flagged \in {{}, {1}, {MaxStored}}}

TimelineTransactions ==
    [transaction_amount : {200, 6000}, merchant_category : {"Retail"},
     location : {"Mumbai"}, transaction_type : {"Online"}]

EvInit ==
    /\ ev \in [phase : {"patterns"}, transaction_data : PatternTransactions,
               user_profile : PatternProfiles,
               transaction_history : PatternHistories,
               now : {0}, readings : {<<>>}, outs : {<<>>}]
           \cup [phase : {"timeline"}, items : StoredItems,
                 current_transaction : TimelineTransactions,
                 now : {0}, outs : {<<>>}]
    /\ gate = GateIdle
    /\ risk = RiskIdle
    /\ fd = FdIdle
    /\ runs = RunsIdle
    /\ parse = ParseIdle
    /\ PipelineIdle

\* One call of detect_patterns; readings keeps the clock reading of each call.
DetectPatterns ==
    /\ ev.phase = "patterns"
    /\ Len(ev.outs) < MaxDetects
    /\ \E out \in {detect_patterns(ev.transaction_data, ev.user_profile,
                                   ev.transaction_history, ev.now)} :
           ev' = [ev EXCEPT !.readings = Append(@, ev.now),
                            !.outs = Append(@, out)]
    /\ UNCHANGED <<parse, gate, risk, fd, runs, pipelineVars>>

\* Steps 2 and 3 of collect_evidence: the history query and build_timeline.
BuildTimeline ==
    /\ ev.phase = "timeline"
    /\ ev.outs = <<>>
    /\ \E out \in {build_timeline(get_user_transaction_history(ev.items),
                                  ev.current_transaction, ev.now)} :
           ev' = [ev EXCEPT !.outs = <<out>>]
    /\ UNCHANGED <<parse, gate, risk, fd, runs, pipelineVars>>

\* Time passes between two calls.
EvClock ==
    /\ ev.phase = "patterns"
    /\ \E reading \in ClockReadings :
           /\ reading > ev.now
           /\ ev' = [ev EXCEPT !.now = reading]
    /\ UNCHANGED <<parse, gate, risk, fd, runs, pipelineVars>>

EvNext == DetectPatterns \/ BuildTimeline \/ EvClock

SpecEv == EvInit /\ [][EvNext]_vars

(***************************************************************************)
(* Claims about the request pipeline (specification Spec)                  *)
(***************************************************************************)
Terminal == {"APPROVED", "REVIEW", "BLOCKED"}

\* The request handled last ran this agent.
LastRan(a) ==
    /\ last.op # "none"
    /\ \E i \in 1..Len(last.agents) : last.agents[i] = a

\* The request handled last was answered with the orchestrator's dict.
LastReturned == last.op # "none" /\ last.response.http = 200

\* The step handles one request.
RequestStep == requests' = requests + 1

\* C1: whenever orchestrate_transaction runs the biometric check and the
\* check reports a failure (is_deepfake true or verification_passed false),
\* the dict it returns has status BLOCKED and risk_score exactly 100,
\* whatever the classifier, the profile and the history answered.
C1_BiometricFailureBlocks ==
    (LastRan("deepfake_detector") /\ LastReturned) =>
        LET result == last.response.result
        IN  (result.deepfake_result.is_deepfake
             \/ ~result.deepfake_result.verification_passed)
            => result.status = "BLOCKED" /\ result.risk_score = 100

\* C1 witness: a verification whose photo is no deepfake but whose face
\* match is below 0.80 has been answered BLOCKED with score 100.
C1_Witness ==
    /\ LastRan("deepfake_detector")
    /\ LastReturned
    /\ ~last.response.result.deepfake_result.is_deepfake
    /\ ~last.response.result.deepfake_result.verification_passed
    /\ last.response.status = "BLOCKED"
    /\ last.response.risk_score = 100

\* C2: step-up verification is never skipped: a submission on which the
\* gate fires is stored as pending and answered VERIFICATION_REQUIRED
\* without a run of the orchestrator, and a terminal verdict is returned
\* for the identifier of a pending transaction only by a verification
\* request that carries the issued code and runs the biometric verifier.
C2_StepUpNeverSkipped ==
    [][RequestStep =>
        /\ (last'.op = "submit" /\ last'.suspicious) =>
              /\ last'.response.http = 200
              /\ last'.response.status = "VERIFICATION_REQUIRED"
              /\ last'.agents = <<>>
              /\ last'.transaction_id \in DOMAIN MOCK_TRANSACTIONS'
              /\ MOCK_TRANSACTIONS'[last'.transaction_id].status = "PENDING"
        /\ (/\ last'.transaction_id \in DOMAIN MOCK_TRANSACTIONS
            /\ last'.response.http = 200
            /\ last'.response.status \in Terminal) =>
              /\ last'.op = "verify"
              /\ last'.request_code =
                    MOCK_TRANSACTIONS[last'.transaction_id].verification_code
              /\ \E i \in 1..Len(last'.agents) :
                    last'.agents[i] = "deepfake_detector"]_vars

\* C6: in a run of orchestrate_transaction that reaches synthesis the
\* escalation handler is invoked, a FraudCase stored and a case identifier
\* attached to the assessment, if and only if the composite score is at
\* least 70; no APPROVED and no medium-confidence REVIEW assessment carries
\* a case identifier.
C6_EscalationIffScoreAtLeast70 ==
    (LastRan("risk_assessor") /\ LastReturned) =>
        LET ra == last.response.result.risk_assessment
        IN  /\ LastRan("escalation_handler") <=> ra.risk_score >= 70
            /\ "case_id" \in DOMAIN ra <=> ra.risk_score >= 70
            /\ "case_id" \in DOMAIN ra =>
                  /\ ra.case_id \in DOMAIN MOCK_FRAUD_CASES
                  /\ MOCK_FRAUD_CASES[ra.case_id].transaction_id
                        = last.transaction_id
                  /\ MOCK_FRAUD_CASES[ra.case_id].risk_score = ra.risk_score
            /\ (ra.status = "APPROVED"
                \/ (ra.status = "REVIEW" /\ ra.confidence = "medium"))
               => "case_id" \notin DOMAIN ra

\* C6 witness: a run has ended with a composite score of exactly 70 and a
\* case identifier attached.
C6_Witness ==
    /\ LastRan("risk_assessor")
    /\ LastReturned
    /\ last.response.result.risk_assessment.risk_score = 70
    /\ "case_id" \in DOMAIN last.response.result.risk_assessment

C10_VerdictAtMostOnce ==
    [][(RequestStep /\ last'.op = "verify"
        /\ last'.transaction_id \in processed) =>
          /\ last'.response.http = 404
          /\ last'.agents = <<>>]_vars

\* C11: for every transaction identifier at most one FraudCase record is
\* ever created: no two stored cases carry the same transaction identifier.
C11_OneCasePerTransaction ==
    \A c1, c2 \in DOMAIN MOCK_FRAUD_CASES :
        MOCK_FRAUD_CASES[c1].transaction_id
           = MOCK_FRAUD_CASES[c2].transaction_id
        => c1 = c2

\* C12: a stored FraudCase is never overwritten or modified, and every
\* escalation stores its record under a case identifier that no stored
\* case has.
C12_CasesNeverOverwritten ==
    [][/\ \A c \in DOMAIN MOCK_FRAUD_CASES :
             /\ c \in DOMAIN MOCK_FRAUD_CASES'
             /\ MOCK_FRAUD_CASES'[c] = MOCK_FRAUD_CASES[c]
       /\ (RequestStep
           /\ \E i \in 1..Len(last'.agents) :
                 last'.agents[i] = "escalation_handler")
          => DOMAIN MOCK_FRAUD_CASES' # DOMAIN MOCK_FRAUD_CASES]_vars

\* The request handled last failed with the internal error of an
\* escalation whose alert could not be sent.
AlertFailed ==
    /\ LastRan("escalation_handler")
    /\ last.response.http = 500

\* C13: when the alert fails after the FraudCase record has been created,
\* the record stays in the case store: after such a request the store holds
\* a case of the escalated transaction with an escalating score.
C13_AlertFailureKeepsCase ==
    AlertFailed =>
        \E c \in DOMAIN MOCK_FRAUD_CASES :
            /\ MOCK_FRAUD_CASES[c].case_id = c
            /\ MOCK_FRAUD_CASES[c].transaction_id = last.transaction_id
            /\ MOCK_FRAUD_CASES[c].risk_score >= EscalationThreshold

\* C13 witness: the first escalation of a run has failed at the alert and
\* its case is the one record of the store.
C13_Witness ==
    /\ AlertFailed
    /\ requests = 1
    /\ \E c \in DOMAIN MOCK_FRAUD_CASES :
          /\ DOMAIN MOCK_FRAUD_CASES = {c}
          /\ MOCK_FRAUD_CASES[c].transaction_id = last.transaction_id

\* C14: a request answered with an internal error leaves the pending store
\* and the case store as they were before the request.
C14_InternalErrorLeavesStores ==
    [][(RequestStep /\ last'.response.http = 500)
          => UNCHANGED <<MOCK_TRANSACTIONS, MOCK_FRAUD_CASES>>]_vars

(***************************************************************************)
(* Claims about assess_risk (specification SpecRisk)                       *)
(***************************************************************************)
Assessed == risk.phase = "risk" /\ risk.assessment # None

HasPattern(p) ==
    \E i \in 1..Len(risk.evidence.detected_patterns) :
        risk.evidence.detected_patterns[i] = p

\* The deltas of the three evidence rows of the adjustment table.
EvidenceDeltas ==
    (IF HasPattern(AmountPattern) THEN 15 ELSE 0)
    + (IF HasPattern(VelocityPattern) THEN 10 ELSE 0)
    + (IF HasPattern(DevicePattern) THEN 10 ELSE 0)

\* The deltas of the three biometric rows, each row on its own.
BiometricDeltasIndependent ==
    IF risk.deepfake = None THEN 0
    ELSE (IF risk.deepfake.is_deepfake THEN 40 ELSE 0)
         + (IF risk.deepfake.face_match_score < 80 THEN 20 ELSE 0)
         + (IF ~risk.deepfake.code_validated THEN 15 ELSE 0)

\* The delta of the first biometric row that holds, in table order.
BiometricDeltaFirst ==
    IF risk.deepfake = None THEN 0
    ELSE IF risk.deepfake.is_deepfake THEN 40
    ELSE IF risk.deepfake.face_match_score < 80 THEN 20
    ELSE IF ~risk.deepfake.code_validated THEN 15
    ELSE 0

\* C3: for every base risk score in 0..100 and every combination of
\* adjustments the composite score of assess_risk lies in 0..100, and it
\* is exactly 100 when base plus the adjustment sum exceeds 100.
C3_CompositeClamped ==
    Assessed =>
        LET a == risk.assessment
            total == SumDeltas(a.adjustments)
        IN  /\ a.base_risk \in 0..100
            /\ a.risk_score \in 0..100
            /\ a.base_risk + total > 100 => a.risk_score = 100

\* C3 witness: an assessment whose base plus adjustments exceeds 100 and
\* whose score is 100.
C3_Witness ==
    /\ Assessed
    /\ risk.assessment.base_risk + SumDeltas(risk.assessment.adjustments) > 100
    /\ risk.assessment.risk_score = 100

\* C4: the status of an assessment is decided by the composite score alone:
\* BLOCKED iff score >= 85, REVIEW with high confidence iff 70..84, REVIEW
\* with medium confidence iff 50..69, APPROVED iff score < 50.
C4_StatusLadder ==
    Assessed =>
        LET a == risk.assessment
        IN  /\ a.status = "BLOCKED" <=> a.risk_score >= 85
            /\ (a.status = "REVIEW" /\ a.confidence = "high")
                  <=> (70 <= a.risk_score /\ a.risk_score <= 84)
            /\ (a.status = "REVIEW" /\ a.confidence = "medium")
                  <=> (50 <= a.risk_score /\ a.risk_score <= 69)
            /\ a.status = "APPROVED" <=> a.risk_score < 50
            /\ a.status \in {"BLOCKED", "REVIEW", "APPROVED"}

\* C4 witness: an assessment at the lower edge of the BLOCKED range.
C4_Witness ==
    /\ Assessed
    /\ risk.assessment.risk_score = 85
    /\ risk.assessment.status = "BLOCKED"

RuleOrder ==
    <<"high_value_deviation", "ml_high_risk", "new_device_high_amount",
      "unusual_hour", "geographic_anomaly">>

\* The condition of a rule on the harness inputs, at the given hour.
RuleHolds(rule, hour) ==
    LET amount == gate.txn.transaction_amount
        avg == Get(gate.baseline, "avg_transaction_amount", 1000)
        known == Get(gate.baseline, "known_devices", {})
        distance == Get(gate.txn, "transaction_distance", 0)
    IN  CASE rule = "high_value_deviation" ->
                amount > 5 * avg /\ amount > 5000
          [] rule = "ml_high_risk" -> gate.prob > 600
          [] rule = "new_device_high_amount" ->
                gate.txn.device_type \notin known /\ amount > 3000
          [] rule = "unusual_hour" -> hour \in 2..6 /\ amount > 2000
          [] rule = "geographic_anomaly" -> distance > 500 /\ amount > 3000

RECURSIVE RulesFrom(_, _)
\* The rules of RuleOrder from position i on whose condition holds.
RulesFrom(i, hour) ==
    IF i > Len(RuleOrder) THEN <<>>
    ELSE (IF RuleHolds(RuleOrder[i], hour) THEN <<RuleOrder[i]>> ELSE <<>>)
         \o RulesFrom(i + 1, hour)

\* C7: calculate_suspicious_flag returns as reasons exactly the rules whose
\* condition holds, in the fixed order, and is_suspicious is true iff that
\* list is non-empty; with probability <= 0.60 and no rule condition
\* holding the flag is false.
C7_ReasonsAreFiringRules ==
    gate.phase = "gate" =>
        \A i \in 1..Len(gate.evals) :
            LET e == gate.evals[i]
            IN  /\ e.out.reasons = RulesFrom(1, e.hour)
                /\ e.out.is_suspicious <=> e.out.reasons # <<>>
                /\ (\A k \in 1..Len(RuleOrder) :
                        ~RuleHolds(RuleOrder[k], e.hour))
                   => ~e.out.is_suspicious

\* C7 witness: an evaluation in which the first, third and fifth rule fire
\* and the second and fourth do not.
C7_Witness ==
    /\ gate.phase = "gate"
    /\ \E i \in 1..Len(gate.evals) :
          gate.evals[i].out.reasons =
              <<"high_value_deviation", "new_device_high_amount",
                "geographic_anomaly">>

\* C8: two evaluations of calculate_suspicious_flag on the same
\* transaction, classifier probability and user baseline return the same
\* (is_suspicious, reasons) pair, and an evaluation changes no stored
\* state.
C8_GateDeterministic ==
    gate.phase = "gate" =>
        /\ \A i, j \in 1..Len(gate.evals) :
              gate.evals[i].out = gate.evals[j].out
        /\ MOCK_TRANSACTIONS = EmptyDict
        /\ MOCK_FRAUD_CASES = EmptyDict


(***************************************************************************)
(* Claims about the parallel orchestrator (specification SpecFd)           *)
(***************************************************************************)
\* What the source's except clause of a phase-1 coroutine returns.
ErrorDict(outcome, agent) == [error |-> outcome.error, agent |-> agent]

FdEnded == fd.phase \in {"returned", "raised"}

\* C15: whatever subset of the three phase-1 agents raises, all three tasks
\* run, the result of each agent that raised is the dict {error, agent}, the
\* result of each other agent is what it returned, assess_risk is invoked
\* exactly once, and orchestrate_fraud_detection returns the complete result
\* instead of raising.
C15_FailedAgentsAreReplaced ==
    FdEnded =>
        /\ fd.phase = "returned"
        /\ ~fd.result.raised
        /\ fd.assess_calls = 1
        /\ Len(fd.order) = 3
        /\ fd.fraud_result =
               IF fd.monitor.raised
               THEN ErrorDict(fd.monitor, "transaction_monitor")
               ELSE fd.monitor.value
        /\ fd.evidence_result =
               IF fd.evidence.raised
               THEN ErrorDict(fd.evidence, "evidence_collector")
               ELSE fd.evidence.value
        /\ fd.deepfake_result =
               IF fd.photo_s3_path = NoCode THEN None
               ELSE IF fd.deepfake.raised
               THEN ErrorDict(fd.deepfake, "deepfake_detector")
               ELSE fd.deepfake.value
        /\ fd.result.value.agent_results =
               [agent_1_fraud_detection |-> fd.fraud_result,
                agent_2_evidence_collection |-> fd.evidence_result,
                agent_3_biometric_verification |-> fd.deepfake_result,
                agent_4_risk_assessment |-> fd.risk_assessment]

\* A run has returned in which the monitor and the biometric agent raised
\* and the evidence collector did not.
C15_Witness ==
    /\ fd.phase = "returned"
    /\ fd.monitor.raised
    /\ ~fd.evidence.raised
    /\ fd.photo_s3_path # NoCode
    /\ fd.deepfake.raised
    /\ fd.assess_calls = 1

\* The verdict in the dict orchestrate_fraud_detection returned ("None" when
\* the assessment has no final_verdict entry).
FinalVerdict == fd.result.value.summary.final_verdict

\* The reply of the text-generation service is not a JSON object carrying a
\* final_verdict: the call failed, or the text does not parse, or it parses
\* to something else.
UnparsableReply ==
    \/ fd.nova.raised
    \/ ~json_loads(fd.nova.text).ok
    \/ json_loads(fd.nova.text).type # "dict"
    \/ "final_verdict" \notin DOMAIN json_loads(fd.nova.text).value

\* C16: for every reply of the text-generation service that cannot be parsed
\* as the expected structured form, and for a failing call, assess_risk
\* returns the verdict REVIEW with a placeholder confidence (50 for
\* unparsable text, 0 for an exception) and never raises.
C16_UnparsableReplyGivesReview ==
    (fd.assess_calls > 0 /\ UnparsableReply) =>
        /\ Get(fd.risk_assessment, "final_verdict", "None") = "REVIEW"
        /\ Get(fd.risk_assessment, "confidence_score", -1) \in {0, 50}

\* The biometric agent ran and reported that the photo is not authentic.
BiometricNotAuthentic ==
    /\ fd.deepfake_result # None
    /\ "verification_summary" \in DOMAIN fd.deepfake_result
    /\ ~fd.deepfake_result.verification_summary.is_authentic

\* C17: whenever the biometric verification result reports is_authentic =
\* false, the verdict orchestrate_fraud_detection returns is BLOCKED,
\* whatever the classifier, the evidence and the text-generation service
\* return.
C17_FailedBiometricBlocks ==
    (fd.phase = "returned" /\ BiometricNotAuthentic) => FinalVerdict = "BLOCKED"

\* C20: the risk assessor starts only after all three phase-1 tasks have
\* completed or failed, whatever the order in which they ran, and it is given
\* the results of exactly those three tasks, in the order monitor, evidence,
\* biometric.
C20_AssessorAfterAllTasks ==
    (fd.phase \notin {"idle", "gather"} \/ fd.assess_calls > 0) =>
        /\ \A a \in Phase1Names : fd.results[a] # Pending
        /\ Len(fd.order) = 3
        /\ {fd.order[i] : i \in 1..3} = Phase1Names
        /\ fd.assess_calls > 0 =>
               fd.assessed_with =
                   <<fd.results["transaction_monitor"],
                     fd.results["evidence_collector"],
                     fd.results["deepfake_detector"]>>

\* The assessor has been called in a run whose tasks finished in the reverse
\* of the list's order, the biometric agent having failed.
C20_Witness ==
    /\ fd.assess_calls = 1
    /\ fd.order = <<"deepfake_detector", "evidence_collector", "transaction_monitor">>
    /\ fd.photo_s3_path # NoCode
    /\ fd.deepfake.raised
    /\ fd.assessed_with[3] = ErrorDict(fd.deepfake, "deepfake_detector")

(***************************************************************************)
(* Further claims about the request pipeline (specification Spec)          *)
(***************************************************************************)
RequiredFields == {"user_id", "transaction_amount", "transaction_type", "merchant_category"}

\* All required fields are present and the amount is in (0, MaxAmount].
FieldsAndAmountOk(request) ==
    /\ RequiredFields \subseteq DOMAIN request
    /\ 0 < request.transaction_amount
    /\ request.transaction_amount <= MaxAmount

\* The submission just handled was rejected by validation: the error went
\* back to the caller, nothing after validate_transaction_data was called
\* and no store changed.
RejectedCleanly ==
    /\ last'.response.http = 400
    /\ last'.response.detail # "None"
    /\ last'.calls = <<"validate_transaction_data">>
    /\ last'.agents = <<>>
    /\ UNCHANGED <<MOCK_TRANSACTIONS, MOCK_FRAUD_CASES, uploaded_photos>>

\* The submission just handled went past validation into pre-screening.
AcceptedForProcessing ==
    /\ Len(last'.calls) >= 3
    /\ last'.calls[2] = "predict_fraud_probability"
    /\ last'.calls[3] = "calculate_suspicious_flag"
    /\ last'.response.http # 400

SubmitStep == requests' = requests + 1 /\ last'.op = "submit"

\* C18 as stated: a submission is accepted iff all required fields are
\* present and 0 < amount <= 1,000,000; every other submission is rejected
\* with the error returned, no collaborator invoked and nothing persisted.
C18_AcceptedIffFieldsAndAmount ==
    [][SubmitStep =>
          IF FieldsAndAmountOk(last'.request)
          THEN AcceptedForProcessing
          ELSE RejectedCleanly]_vars

\* C18 amended: a submission is accepted iff all required fields are
\* present, 0 < amount <= 1,000,000 and user_id is a non-empty string; every
\* other submission is rejected with the error returned, no collaborator
\* invoked and nothing persisted.
C18_AcceptedIffFieldsAmountAndUser ==
    [][SubmitStep =>
          IF FieldsAndAmountOk(last'.request) /\ last'.request.user_id # ""
          THEN AcceptedForProcessing
          ELSE RejectedCleanly]_vars

\* A submission with every field present, an amount in range and an empty
\* user_id has been rejected.
C18_Witness ==
    /\ last.op = "submit"
    /\ FieldsAndAmountOk(last.request)
    /\ last.request.user_id = ""
    /\ last.response = [http |-> 400, detail |-> "Invalid user_id"]
    /\ last.calls = <<"validate_transaction_data">>

(***************************************************************************)
(* Claims about the generated texts (specification SpecTexts)              *)
(***************************************************************************)
BothRun == runs.phase = "run" /\ runs.first # None /\ runs.second # None

\* The run called the escalation handler.
Escalated(run) == \E i \in 1..Len(run.agents) : run.agents[i] = "escalation_handler"

\* C19: two runs of orchestrate_transaction that differ only in the texts
\* the text-generation service returns end alike: both return or both fail,
\* with the same status, the same risk score and the same decision to
\* escalate (and the case stored by an escalation carries the same status
\* and score).
C19_TextsDoNotDecide ==
    BothRun =>
        /\ runs.first.raised = runs.second.raised
        /\ runs.first.agents = runs.second.agents
        /\ Escalated(runs.first) = Escalated(runs.second)
        /\ ~runs.first.raised =>
              /\ runs.first.result.status = runs.second.result.status
              /\ runs.first.result.risk_score = runs.second.result.risk_score
        /\ DOMAIN runs.first.fraud_cases = DOMAIN runs.second.fraud_cases
        /\ \A c \in DOMAIN runs.first.fraud_cases :
              /\ runs.first.fraud_cases[c].status = runs.second.fraud_cases[c].status
              /\ runs.first.fraud_cases[c].risk_score = runs.second.fraud_cases[c].risk_score

\* Two runs with different texts have both escalated and returned, and the
\* reasoning texts in their assessments differ.
C19_Witness ==
    /\ BothRun
    /\ runs.texts.first # runs.texts.second
    /\ ~runs.first.raised
    /\ Escalated(runs.first)
    /\ runs.first.result.risk_assessment.llm_reasoning # runs.second.result.risk_assessment.llm_reasoning
    /\ runs.first.fraud_cases # runs.second.fraud_cases

(***************************************************************************)
(* Claims about the short-circuit and the assessment (specification Spec)  *)
(***************************************************************************)
\* The dict of the biometric agent in the response to the last request is
\* there and reports a failed check.
BiometricCheckFailed ==
    /\ last.op = "verify"
    /\ last.response.http = 200
    /\ "deepfake_result" \in DOMAIN last.response.result
    /\ last.response.result.deepfake_result # None
    /\ \/ last.response.result.deepfake_result.is_deepfake
       \/ ~last.response.result.deepfake_result.verification_passed

\* C21: a run of orchestrate_transaction whose biometric check failed
\* returns after the monitor and the biometric agent alone: the evidence
\* collector, the risk assessor and the escalation handler (the only caller
\* of create_fraud_case and send_sns_alert) are not invoked, the case store
\* is left as it was and the response carries no case id and no alert.
C21_ShortCircuitSkipsRest ==
    [][(RequestStep /\ BiometricCheckFailed') =>
          /\ last'.agents = <<"transaction_monitor", "deepfake_detector">>
          /\ MOCK_FRAUD_CASES' = MOCK_FRAUD_CASES
          /\ DOMAIN last'.response.result =
                 {"status", "risk_score", "reason", "deepfake_result"}]_vars

\* A verification whose photo is a deepfake has been answered after the
\* monitor and the biometric agent alone, and no case is stored.
C21_Witness ==
    /\ BiometricCheckFailed
    /\ last.response.result.deepfake_result.is_deepfake
    /\ last.agents = <<"transaction_monitor", "deepfake_detector">>
    /\ MOCK_FRAUD_CASES = EmptyDict

(***************************************************************************)
(* Claims about the assessment after synthesis (specification SpecTexts)   *)
(***************************************************************************)
\* The runs of the pair that went through the risk assessor and returned,
\* each with the texts it was given.
AssessedRuns ==
    {p \in {[run |-> runs.first, texts |-> runs.texts.first],
            [run |-> runs.second, texts |-> runs.texts.second]} :
        /\ p.run # None
        /\ ~p.run.raised
        /\ "risk_assessment" \in DOMAIN p.run.result}

\* The assessment as assess_risk returned it in that run.
AssessmentAsReturned(p) ==
    assess_risk(p.run.result.monitor_result, p.run.result.deepfake_result,
                p.run.result.evidence, p.texts.risk)

\* The fields of the final assessment that assess_risk did not return.
FieldsAdded(p) ==
    DOMAIN p.run.result.risk_assessment \ DOMAIN AssessmentAsReturned(p)

\* Every field assess_risk returned is in the final assessment, unchanged.
ReturnedFieldsKept(p) ==
    \A f \in DOMAIN AssessmentAsReturned(p) :
        /\ f \in DOMAIN p.run.result.risk_assessment
        /\ p.run.result.risk_assessment[f] = AssessmentAsReturned(p)[f]

\* C22 as stated: after assess_risk has returned, the rest of the run adds
\* the case identifier on the escalation path and nothing else, and changes
\* no field.
C22_OnlyCaseIdAdded ==
    \A p \in AssessedRuns :
        /\ ReturnedFieldsKept(p)
        /\ FieldsAdded(p) = IF Escalated(p.run) THEN {"case_id"} ELSE {}

\* C22 amended: after assess_risk has returned, the rest of the run adds
\* the case identifier and the list of alert references on the escalation
\* path, adds nothing otherwise, and changes no field.
C22_OnlyCaseIdAndAlertsAdded ==
    \A p \in AssessedRuns :
        /\ ReturnedFieldsKept(p)
        /\ FieldsAdded(p) =
               IF Escalated(p.run) THEN {"case_id", "alerts_sent"} ELSE {}

\* A run has escalated and returned an assessment that carries the case
\* identifier and the alert reference next to the fields of assess_risk.
C22_Witness ==
    \E p \in AssessedRuns :
        /\ Escalated(p.run)
        /\ p.run.result.risk_assessment.case_id = runs.env.case_id
        /\ p.run.result.risk_assessment.alerts_sent = <<"mock-message-id">>
        /\ p.run.result.risk_assessment.status = "BLOCKED"

(***************************************************************************)
(* Claims about parse_deepfake_result (specification SpecParse)            *)
(***************************************************************************)
\* The sub-dict is in the response (not missing, not null) and its flag is
\* there and true.
FlagPassed(sub, flag) ==
    /\ sub \in DOMAIN parse.api_response
    /\ parse.api_response[sub] # None
    /\ flag \in DOMAIN parse.api_response[sub]
    /\ parse.api_response[sub][flag]

\* No sub-dict of the response is JSON null.
NoNullSubDict ==
    \A sub \in {"face_comparison", "quality_check", "liveness_check"} :
        sub \in DOMAIN parse.api_response => parse.api_response[sub] # None

\* C23: on a response whose fields are present or missing,
\* parse_deepfake_result does not raise, and is_authentic is true iff the
\* overall status is VERIFIED and the face match, the is-real check and the
\* liveness check all passed; a missing field counts as failed.
C23_AuthenticIffAllFour ==
    (parse.phase = "done" /\ NoNullSubDict) =>
        /\ ~parse.out.raised
        /\ parse.out.value.is_authentic <=>
              /\ "verification_result" \in DOMAIN parse.api_response
              /\ parse.api_response.verification_result.text = "VERIFIED"
              /\ FlagPassed("face_comparison", "match")
              /\ FlagPassed("quality_check", "is_real")
              /\ FlagPassed("liveness_check", "is_live")

\* A VERIFIED response with the face matched and the photo real, whose
\* liveness sub-dict is missing, has been parsed as not authentic.
C23_Witness ==
    /\ parse.phase = "done"
    /\ "verification_result" \in DOMAIN parse.api_response
    /\ parse.api_response.verification_result.text = "VERIFIED"
    /\ FlagPassed("face_comparison", "match")
    /\ FlagPassed("quality_check", "is_real")
    /\ "liveness_check" \notin DOMAIN parse.api_response
    /\ ~parse.out.raised
    /\ ~parse.out.value.is_authentic

(***************************************************************************)
(* Claims about the evidence collector (specification SpecEv)              *)
(***************************************************************************)
\* The calls of detect_patterns made so far.
DetectCalls == IF ev.phase = "patterns" THEN 1..Len(ev.outs) ELSE {}

\* The texts of the checks that hold on the input at the clock reading, in
\* the order amount anomaly, velocity, new device, new location, first-time
\* merchant, fraud history, rapid succession.
PatternsInFixedOrder(reading) ==
    LET td == ev.transaction_data
        up == ev.user_profile
        recent == Recent24h(ev.transaction_history, reading)
        Unknown(field, known) ==
            td[field] # "" /\ \A i \in DOMAIN up[known] : up[known][i] # td[field]
        checks ==
            <<[holds |-> td.transaction_amount > 5 * up.avg_transaction_amount,
               text |-> AmountAnomaly(td.transaction_amount, up.avg_transaction_amount)],
              [holds |-> Len(recent) > 10, text |-> HighVelocity(Len(recent))],
              [holds |-> Unknown("device_type", "known_devices"),
               text |-> NewDevice(td.device_type)],
              [holds |-> Unknown("location", "known_locations"),
               text |-> NewLocation(td.location)],
              [holds |-> Unknown("merchant_category", "known_merchants"),
               text |-> FirstMerchant(td.merchant_category)],
              [holds |-> up.fraud_history > 0, text |-> FraudHistory(up.fraud_history)],
              [holds |-> Len(recent) >= 3 /\ time_diff(recent) < Hour,
               text |-> RapidSuccession]>>
        kept == SelectSeq(checks, LAMBDA c : c.holds)
    IN  [i \in 1..Len(kept) |-> kept[i].text]

\* [::-1]
Reversed(list) == [i \in 1..Len(list) |-> list[Len(list) + 1 - i]]

\* The profile with its known devices, locations and merchants iterated the
\* other way round.
OtherIteration(up) ==
    [up EXCEPT !.known_devices = Reversed(@), !.known_locations = Reversed(@),
               !.known_merchants = Reversed(@)]

\* Every call returned the list of the checks that held when it was made.
C24_ReturnsTheChecksThatHold ==
    \A i \in DetectCalls :
        /\ ~ev.outs[i].raised
        /\ ev.outs[i].value = PatternsInFixedOrder(ev.readings[i])

\* Two calls on the same input returned the same.
C24_RepeatedRunsAgree ==
    \A i, j \in DetectCalls : ev.outs[i] = ev.outs[j]

\* The iteration order of the known collections does not show in the answer.
C24_KnownOrderIrrelevant ==
    ev.phase = "patterns" =>
        detect_patterns(ev.transaction_data, OtherIteration(ev.user_profile),
                        ev.transaction_history, ev.now)
            = detect_patterns(ev.transaction_data, ev.user_profile,
                              ev.transaction_history, ev.now)

\* C24: detect_patterns returns exactly the checks whose condition holds, in
\* the fixed order amount anomaly, velocity, new device, new location,
\* first-time merchant, fraud history, rapid succession; repeated runs on the
\* same transaction, profile and history give the same ordered list,
\* whatever the iteration order of the known collections.
C24_SameOrderedListOnEveryRun ==
    /\ C24_ReturnsTheChecksThatHold
    /\ C24_RepeatedRunsAgree
    /\ C24_KnownOrderIrrelevant

\* A timestamp that datetime.fromisoformat accepts.
Parsable(ts) == ts # Absent /\ ts # Malformed

\* C25: detect_patterns never raises because of timestamps: whatever mix of
\* missing, malformed, offset-aware and offset-naive timestamps the history
\* holds, every call returns a pattern list, and a record whose timestamp
\* cannot be parsed is not among the records of the last 24 hours.
C25_NeverRaisesOnTimestamps ==
    \A i \in DetectCalls :
        /\ ~ev.outs[i].raised
        /\ LET recent == Recent24h(ev.transaction_history, ev.readings[i])
           IN  \A k \in DOMAIN recent : Parsable(recent[k].Timestamp)

\* The unparsable records alone never made a call raise, and none of them
\* was counted as recent.
C25_UnparsableRecordsAreSkipped ==
    \A i \in DetectCalls :
        LET recent == Recent24h(ev.transaction_history, ev.readings[i])
        IN  /\ \A k \in DOMAIN recent : Parsable(recent[k].Timestamp)
            /\ ev.outs[i].raised =>
                   \E k, l \in DOMAIN recent :
                       recent[k].Timestamp.kind # recent[l].Timestamp.kind

\* The instants of the parsable records of the history, in its order.
Instants(transaction_history) ==
    LET parsable == SelectSeq(transaction_history,
                        LAMBDA t : Parsable(Get(t, "Timestamp", Absent)))
    IN  [k \in 1..Len(parsable) |-> parsable[k].Timestamp.at]

\* The history is supplied newest first.
IsNewestFirst(transaction_history) ==
    LET at == Instants(transaction_history)
    IN  \A k \in 1..(Len(at) - 1) : at[k] >= at[k + 1]

\* The history is supplied oldest first.
IsOldestFirst(transaction_history) ==
    LET at == Instants(transaction_history)
    IN  \A k \in 1..(Len(at) - 1) : at[k] <= at[k + 1]

\* At least three records are within the last 24 hours and the earliest and
\* the latest of the first three are less than an hour apart.
ThreeWithinTheHour(reading) ==
    LET recent == Recent24h(ev.transaction_history, reading)
    IN  /\ Len(recent) >= 3
        /\ \A k, l \in 1..3 :
               recent[k].Timestamp.at - recent[l].Timestamp.at < Hour

\* The answer carries the rapid-succession flag.
Flagged(out) == \E k \in DOMAIN out.value : out.value[k] = RapidSuccession

\* C26: the rapid-succession flag is emitted iff at least three historical
\* transactions fall within the last 24 hours and the earliest and the
\* latest of the first three are less than one hour apart, whether the
\* history is supplied newest first or oldest first.
C26_RapidIffThreeWithinTheHour ==
    \A i \in DetectCalls :
        (/\ ~ev.outs[i].raised
         /\ \/ IsNewestFirst(ev.transaction_history)
            \/ IsOldestFirst(ev.transaction_history))
            => (Flagged(ev.outs[i]) <=> ThreeWithinTheHour(ev.readings[i]))

\* The same on the histories supplied newest first only.
C26_RapidIffNewestFirst ==
    \A i \in DetectCalls :
        (~ev.outs[i].raised /\ IsNewestFirst(ev.transaction_history))
            => (Flagged(ev.outs[i]) <=> ThreeWithinTheHour(ev.readings[i]))

\* The timelines built so far.
Timelines == IF ev.phase = "timeline" THEN {ev.outs[i] : i \in DOMAIN ev.outs} ELSE {}

\* The timestamps of the (up to) five most recent stored transactions.
FiveMostRecent ==
    {t.Timestamp : t \in {t \in ev.items :
        Cardinality({u \in ev.items : u.Timestamp.at > t.Timestamp.at}) < 5}}

\* The timeline has min(5, history length) + 1 entries and ends with the
\* entry of the current transaction, whose fraud flag is 0.
TimelineEndsWithCurrent(timeline) ==
    /\ Len(timeline) = Min(5, Cardinality(ev.items)) + 1
    /\ timeline[Len(timeline)] = CurrentEntry(ev.current_transaction, ev.now)
    /\ timeline[Len(timeline)].fraud_flag = 0

\* C27: the timeline consists of the (up to) five most recent historical
\* transactions in chronological order, the most recent last, followed by
\* the entry of the current transaction as the final element, with fraud
\* flag 0; its length is min(5, history length) + 1.
C27_FiveMostRecentThenCurrent ==
    \A timeline \in Timelines :
        /\ TimelineEndsWithCurrent(timeline)
        /\ {timeline[k].time : k \in 1..(Len(timeline) - 1)} = FiveMostRecent
        /\ \A k, l \in 1..(Len(timeline) - 1) :
               k < l => timeline[k].time.at < timeline[l].time.at

\* The length and the final entry alone.
C27_LengthAndCurrentLast ==
    \A timeline \in Timelines : TimelineEndsWithCurrent(timeline)

(***************************************************************************)
(* Claims about the biometric result and the classifier fall-back          *)
(* (specification SpecTexts) and about the pending store (Spec)            *)
(***************************************************************************)
\* The adjustments assess_risk makes for a biometric result.
BiometricAdjustments ==
    {<<"Deepfake detected", 40>>, <<"Low face match", 20>>,
     <<"Code validation failed", 15>>}

\* The assessed runs that carried a biometric result.
AssessedWithBiometric ==
    {p \in AssessedRuns : p.run.result.deepfake_result # None}

\* C28: every run of orchestrate_transaction that reaches assess_risk with a
\* biometric result has is_deepfake false, a face match of at least 0.80 and
\* the code validated, so its adjustment list holds no biometric adjustment
\* (+40, +20, +15).
C28_AssessedBiometricPassed ==
    \A p \in AssessedWithBiometric :
        LET deepfake_result == p.run.result.deepfake_result
            adjustments == p.run.result.risk_assessment.adjustments
        IN  /\ ~deepfake_result.is_deepfake
            /\ deepfake_result.face_match_score >= 80
            /\ deepfake_result.code_validated
            /\ \A k \in DOMAIN adjustments :
                   adjustments[k] \notin BiometricAdjustments

\* A run with a passed biometric check went through assess_risk and got an
\* adjustment, which is not a biometric one.
C28_Witness ==
    \E p \in AssessedWithBiometric :
        /\ p.run.agents[2] = "deepfake_detector"
        /\ p.run.result.deepfake_result.verification_passed
        /\ Len(p.run.result.risk_assessment.adjustments) > 0

\* The runs that returned although the classifier's inference failed.
RunsOnFallback ==
    {run \in {runs.first, runs.second} :
        run # None /\ ~run.raised /\ runs.env.prob = InferenceError}

\* C29: when the inference of the loaded classifier fails,
\* predict_fraud_probability yields 0.5 instead of raising; the ml_high_risk
\* rule of the gate does not fire on that value, the base risk score of the
\* run is 50, and a run that reaches the risk assessor never ends APPROVED.
C29_FallbackIsNeverApproved ==
    \A run \in RunsOnFallback :
        /\ predict_fraud_probability(runs.env.prob) = 500
        /\ \A hour \in Hours :
               LET flag == calculate_suspicious_flag(
                               runs.transaction_data,
                               predict_fraud_probability(runs.env.prob),
                               runs.env.profile, hour)
               IN  \A k \in DOMAIN flag.reasons : flag.reasons[k] # "ml_high_risk"
        /\ "monitor_result" \in DOMAIN run.result =>
               /\ run.result.monitor_result.fraud_probability = 500
               /\ run.result.monitor_result.risk_score = 50
        /\ "risk_assessment" \in DOMAIN run.result =>
               /\ run.result.risk_assessment.base_risk = 50
               /\ run.result.status # "APPROVED"

\* A run whose inference failed went through the risk assessor without any
\* adjustment and ended REVIEW on the base risk of 50.
C29_Witness ==
    \E run \in RunsOnFallback :
        /\ "risk_assessment" \in DOMAIN run.result
        /\ run.result.risk_assessment.adjustments = <<>>
        /\ run.result.risk_assessment.risk_score = 50
        /\ run.result.status = "REVIEW"

\* C30: a pending transaction stored at submission stays retrievable under
\* its identifier, with the same data and verification code, until it is
\* verified, whatever is submitted in between: no later submission replaces
\* or alters the pending record of another transaction.
C30_PendingRecordsKept ==
    [][\A transaction_id \in DOMAIN MOCK_TRANSACTIONS :
           transaction_id \notin processed =>
               get_pending_transaction(MOCK_TRANSACTIONS', transaction_id)
                   = MOCK_TRANSACTIONS[transaction_id]]_vars

====
